---- MODULE Spec2Model ----
(***************************************************************************)
(* RefCheckWebApp: the rate-limited scheduler (js/utils/rate-limiter.js)   *)
(* and the cross-window merge state machine (processAllWindows).           *)
(*                                                                         *)
(* Time.  The limiter reads Date.now() only to compare a timestamp with    *)
(* now - 60000 and to compute oldest + 60000 - now.  Both depend on the    *)
(* age now - ts alone, so a timestamp is kept as its age; an age of        *)
(* WINDOW_MS or more is removed by every filter, so ages saturate there.   *)
(* A timer is kept as the time left until it is due; it may fire at any    *)
(* moment from then on (timers can be late, never early).                  *)
(*                                                                         *)
(* Atomicity.  JavaScript runs one macrotask and all the microtasks it     *)
(* queues to completion, so an action is one macrotask: a call from        *)
(* outside, the settling of an external promise with every continuation    *)
(* that it resumes, or a timer callback.                                   *)
(***************************************************************************)
EXTENDS Integers, Sequences, FiniteSets, TLC

\* ---------------------------------------------------------------- bounds
MaxTasks == 4
\* windows of a run, and raw extractions the extraction service returns in a run
MaxWindows == 3
MaxRaw == 3
\* extractions in a list handed to deduplication alone
MaxList == 3
\* text length, and window size, of a call of createWindows
MaxText == 12
MaxWindowSize == 5
\* runs the page starts, and citations the extraction service returns for a
\* window of such a run
MaxRuns == 1
MaxPageBatch == 1
\* citations an extraction call returns in the run over two windows
MaxBatch == 2

\* ------------------------------------------------------ program constants
WINDOW_MS == 60000
BUFFER_MS == 10
Infinity == 1000000
DefaultWindowSize == 2000
DefaultOverlap == 200

\* clock advances offered to the model: a third of the window, and the whole
\* window (after which a timestamp has aged out while its timer, armed with
\* the 10 ms buffer, is not yet due)
Ticks == {20000, 60000}

\* options a RateLimiter is constructed with (0 stands for "not given")
ConcurrentOptions == {0, 1, 2}
RpmOptions == {0, 1, 2}

Tasks == 1..MaxTasks

Max(a, b) == IF a >= b THEN a ELSE b
Min(a, b) == IF a <= b THEN a ELSE b

VARIABLES
    rl,         \* the RateLimiter object
    status,     \* per task: unscheduled, queued, running, fulfilled, rejected
    startLog,   \* history: the tasks in the order _executeTask was entered
    startAge,   \* history: the age of each start of startLog
    enqLog,     \* history: the tasks in the order they were pushed on the queue
    pw,         \* a run of processAllWindows (see NewRun)
    wn,         \* a call of createWindows: its arguments and what it returned
    mg,         \* a call of mergeExtractions: its arguments and what it returned
    sc,         \* a call of computeMatchScore: its arguments and the verdict
    vc,         \* a call of validateCitation: the citation, where the call
                \* stands, and the history of its requests
    ra,         \* a call of runAll or runAllSettled on the RateLimiter rl
    ui          \* the page: its inputs, state.currentWindows, and the windows
                \* the run read

rlVars == <<rl, status, startLog, startAge, enqLog>>
fnVars == <<wn, mg, sc, vc, ra, ui>>
vars == <<rl, status, startLog, startAge, enqLog, pw, wn, mg, sc, vc, ra, ui>>

\* ---------------------------------------------------------- createWindows
\*
\* A text is its length and whether it holds nothing but whitespace; a
\* window is its index and its range [start, end) in the text (its text is
\* that slice).

\* no call of createWindows
NoWindowing ==
    [ text |-> [length |-> 0, blank |-> TRUE], windowSize |-> 0, overlap |-> 0,
      called |-> FALSE, windows |-> << >>,
      pc |-> "idle", size |-> 0, over |-> 0, step |-> 0, start |-> 0 ]

\* (mutant) no final window is added: the loop runs to the end of the text
RECURSIVE windowLoopNoBackShift(_, _, _, _, _)
windowLoopNoBackShift(length, windowSize, step, start, windows) ==
    IF ~(start < length) THEN windows
    ELSE LET end == Min(start + windowSize, length)
         IN  windowLoopNoBackShift(length, windowSize, step, start + step,
                 Append(windows, [index |-> Len(windows), start |-> start,
                                  end |-> end, length |-> end - start]))

\* (mutant) the final window is one step long, not one window size
RECURSIVE windowLoopShiftByStep(_, _, _, _, _)
windowLoopShiftByStep(length, windowSize, step, start, windows) ==
    IF ~(start < length) THEN windows
    ELSE LET end == Min(start + windowSize, length)
             pushed == Append(windows,
                              [index |-> Len(windows), start |-> start,
                               end |-> end, length |-> end - start])
             next == start + step
         IN  IF next < length /\ length - next < step
             THEN LET finalStart == Max(0, length - step)
                  IN  IF finalStart > pushed[Len(pushed)].start
                      THEN Append(pushed,
                                  [index |-> Len(pushed), start |-> finalStart,
                                   end |-> length, length |-> length - finalStart])
                      ELSE pushed
             ELSE windowLoopShiftByStep(length, windowSize, step, next, pushed)

\* the while loop of createWindows (lines 65-94), from a start position
RECURSIVE windowLoop(_, _, _, _, _)
windowLoop(length, windowSize, step, start, windows) ==
    IF ~(start < length) THEN windows
    ELSE LET end == Min(start + windowSize, length)
             pushed == Append(windows,
                              [index |-> Len(windows), start |-> start,
                               end |-> end, length |-> end - start])
             next == start + step
         IN  IF next < length /\ length - next < step
             THEN LET finalStart == Max(0, length - windowSize)
                  IN  IF finalStart > pushed[Len(pushed)].start
                      THEN Append(pushed,
                                  [index |-> Len(pushed), start |-> finalStart,
                                   end |-> length, length |-> length - finalStart])
                      ELSE pushed
             ELSE windowLoop(length, windowSize, step, next, pushed)

\* (mutant) the step is one more than the window size
createWindowsGap(text, windowSize, overlap) ==
    IF text.length = 0 \/ text.blank THEN << >>
    ELSE LET size == IF windowSize <= 0 THEN DefaultWindowSize ELSE windowSize
         IN  windowLoop(text.length, size, size + 1, 0, << >>)

createWindows(text, windowSize, overlap) ==
    IF text.length = 0 \/ text.blank THEN << >>
    ELSE LET size == IF windowSize <= 0 THEN DefaultWindowSize ELSE windowSize
             over == IF overlap < 0 THEN 0
                     ELSE IF overlap >= size THEN size - 1
                     ELSE overlap
         IN  windowLoop(text.length, size, size - over, 0, << >>)

\* createWindows step by step.  W is the call: its arguments, the locals
\* windowSize (size) and overlap (over) after lines 56-58, step and start,
\* the windows pushed, and pc: "idle", "loop" (at the loop test of line
\* 65) or "returned".

\* (mutant) an overlap of the window size or more is left as it is
enterCreateWindowsNoClamp(W) ==
    IF W.text.length = 0 \/ W.text.blank
    THEN [W EXCEPT !.pc = "returned", !.called = TRUE, !.windows = << >>]
    ELSE LET size == IF W.windowSize <= 0 THEN DefaultWindowSize ELSE W.windowSize
             over == IF W.overlap < 0 THEN 0 ELSE W.overlap
         IN  [W EXCEPT !.pc = "loop", !.size = size, !.over = over,
                       !.step = size - over, !.start = 0, !.windows = << >>]

\* lines 51-63: up to the loop
enterCreateWindows(W) ==
    IF W.text.length = 0 \/ W.text.blank
    THEN [W EXCEPT !.pc = "returned", !.called = TRUE, !.windows = << >>]
    ELSE LET size == IF W.windowSize <= 0 THEN DefaultWindowSize ELSE W.windowSize
             over == IF W.overlap < 0 THEN 0
                     ELSE IF W.overlap >= size THEN size - 1
                     ELSE W.overlap
         IN  [W EXCEPT !.pc = "loop", !.size = size, !.over = over,
                       !.step = size - over, !.start = 0, !.windows = << >>]

\* lines 65-96: the loop test and one pass through the body, or the return
loopIteration(W) ==
    IF ~(W.start < W.text.length)
    THEN [W EXCEPT !.pc = "returned", !.called = TRUE]
    ELSE LET length == W.text.length
             end == Min(W.start + W.size, length)
             pushed == Append(W.windows,
                              [index |-> Len(W.windows), start |-> W.start,
                               end |-> end, length |-> end - W.start])
             next == W.start + W.step
         IN  IF next < length /\ length - next < W.step
             THEN LET finalStart == Max(0, length - W.size)
                  IN  [W EXCEPT !.start = next, !.pc = "returned", !.called = TRUE,
                                !.windows =
                                    IF finalStart > pushed[Len(pushed)].start
                                    THEN Append(pushed,
                                                [index |-> Len(pushed),
                                                 start |-> finalStart,
                                                 end |-> length,
                                                 length |-> length - finalStart])
                                    ELSE pushed]
             ELSE [W EXCEPT !.start = next, !.windows = pushed]

\* ------------------------------------------------------------ RateLimiter

\* constructor: options.x || Infinity
NewRateLimiter(maxConcurrent, requestsPerMinute) ==
    [ maxConcurrent     |-> IF maxConcurrent = 0 THEN Infinity ELSE maxConcurrent,
      requestsPerMinute |-> IF requestsPerMinute = 0 THEN Infinity ELSE requestsPerMinute,
      activeRequests    |-> 0,
      requestTimestamps |-> << >>,
      queue             |-> << >>,
      timers            |-> << >> ]

\* (mutant) the window is cut to half a minute
InsideHalfWindow(age) == age < 30000

\* ts > Date.now() - 60000, that is: age < 60000
InsideWindow(age) == age < WINDOW_MS

cleanTimestamps(L) ==
    [L EXCEPT !.requestTimestamps = SelectSeq(@, InsideWindow)]

\* (mutant) the concurrency ceiling is not consulted
canProceedRateOnly(L) ==
    LET C == cleanTimestamps(L)
    IN  Len(C.requestTimestamps) < C.requestsPerMinute

\* the value _canProceed returns (its effect on L is cleanTimestamps(L))
canProceed(L) ==
    LET C == cleanTimestamps(L)
        concurrencyOk == C.activeRequests < C.maxConcurrent
        rateOk == Len(C.requestTimestamps) < C.requestsPerMinute
    IN  concurrencyOk /\ rateOk

\* the value _getDelayMs returns (its effect on L is cleanTimestamps(L))
getDelayMs(L) ==
    LET C == cleanTimestamps(L)
    IN  IF Len(C.requestTimestamps) >= C.requestsPerMinute
        THEN LET delayNeeded == WINDOW_MS - C.requestTimestamps[1]
             IN  Max(0, delayNeeded + BUFFER_MS)
        ELSE 0

\* _executeTask up to the call of task(): count it, stamp it
executeTask(L) ==
    [L EXCEPT !.activeRequests = @ + 1,
              !.requestTimestamps = Append(@, 0)]

\* (mutant) the newest entry is taken instead of the oldest
shiftQueueLifo(L) ==
    [ task |-> L.queue[Len(L.queue)],
      lim  |-> [L EXCEPT !.queue = SubSeq(@, 1, Len(@) - 1)] ]

\* queue.shift(): the entry taken and the limiter without it
shiftQueue(L) ==
    [ task |-> Head(L.queue),
      lim  |-> [L EXCEPT !.queue = Tail(@)] ]

\* _processQueue: [lim |-> the limiter afterwards, started |-> tasks started]
RECURSIVE processQueueFrom(_, _)
processQueueFrom(L, acc) ==
    IF Len(L.queue) > 0 /\ canProceed(L)
    THEN LET s == shiftQueue(cleanTimestamps(L))
         IN  processQueueFrom(executeTask(s.lim), Append(acc, s.task))
    ELSE [ lim     |-> IF Len(L.queue) > 0 THEN cleanTimestamps(L) ELSE L,
           started |-> acc ]

processQueue(L) == processQueueFrom(L, << >>)

\* setTimeout(() => this._processQueue(), delay)
armTimer(L, delay) == [L EXCEPT !.timers = Append(@, delay)]

\* schedule(task): run now, or queue and arm a timer when a delay is computed
schedule(L, t) ==
    IF canProceed(L)
    THEN [ lim |-> executeTask(cleanTimestamps(L)), started |-> <<t>> ]
    ELSE LET Q == [cleanTimestamps(L) EXCEPT !.queue = Append(@, t)]
             delay == getDelayMs(Q)
         IN  [ lim     |-> IF delay > 0 THEN armTimer(Q, delay) ELSE Q,
               started |-> << >> ]

\* (mutant) the finally block only decrements
finishTaskNoReevaluation(L) ==
    [ lim |-> [L EXCEPT !.activeRequests = @ - 1], started |-> << >> ]

\* the finally block of _executeTask
finishTask(L) == processQueue([L EXCEPT !.activeRequests = @ - 1])

\* the clock advances by d
RECURSIVE MapSeq(_, _)
MapSeq(Op(_), s) ==
    IF s = << >> THEN << >> ELSE <<Op(Head(s))>> \o MapSeq(Op, Tail(s))

advance(L, d) ==
    [L EXCEPT !.requestTimestamps = MapSeq(LAMBDA a : Min(a + d, WINDOW_MS), @),
              !.timers = MapSeq(LAMBDA r : Max(0, r - d), @)]

RemoveAt(s, k) == SubSeq(s, 1, k - 1) \o SubSeq(s, k + 1, Len(s))

Range(s) == { s[k] : k \in 1..Len(s) }

\* ----------------------------------------------------- extraction records

\* WINDOW_COLORS.length
NumColors == 6

\* a record of the extraction service with every optional field absent;
\* "" and << >> stand for an absent (falsy) field, complete = TRUE for a
\* complete flag that is true or absent (the code tests complete !== false)
Blank ==
    [ complete |-> TRUE, position |-> "", reason |-> "",
      doi |-> "", pmid |-> "", isbn |-> "",
      title |-> << >>, authors |-> << >>, year |-> "", container_title |-> "",
      volume |-> "", issue |-> "", pages |-> "", query_bibliographic |-> "",
      raw_text |-> << >>, authors_truncated |-> FALSE ]

\* the fields an Extraction has besides those of the raw record
NoIdentity ==
    [ id |-> << >>, index |-> -1, colorIndex |-> -1, windowIndex |-> 0,
      error |-> FALSE, errorMessage |-> "",
      validationStatus |-> "", validationMessage |-> "" ]

\* `extraction-${index}`
ExtractionId(index) == <<"extraction-", index>>

processExtraction(rawExtraction, index, windowIndex) ==
    [ id |-> ExtractionId(index), index |-> index,
      colorIndex |-> index % NumColors, windowIndex |-> windowIndex ]
        @@ rawExtraction @@ NoIdentity

createErrorExtraction(index, windowIndex, errorMessage) ==
    [ id |-> ExtractionId(index), index |-> index,
      colorIndex |-> index % NumColors, windowIndex |-> windowIndex,
      error |-> TRUE, errorMessage |-> errorMessage,
      validationStatus |-> "invalid" ]
        @@ NoIdentity @@ Blank

\* String.prototype.toLowerCase on the strings of the model
toLowerCase(s) ==
    CASE s = "10.1/X" -> "10.1/x"
      [] s = "Smith"  -> "smith"
      [] s = "Smith " -> "smith "
      [] s = "Jones"  -> "jones"
      [] s = "Nature" -> "nature"
      [] OTHER        -> s

\* String.prototype.trim on the strings of the model
trim(s) ==
    CASE s = "smith " -> "smith"
      [] s = "Smith " -> "Smith"
      [] OTHER        -> s

\* isbn.replace(/[-\s]/g, '') on the strings of the model
stripIsbn(s) ==
    CASE s = "978-0-1" -> "97801"
      [] s = "978 0 1" -> "97801"
      [] OTHER         -> s

\* a title is a sequence of characters
lowerChar(c) ==
    CASE c = "Q" -> "q"
      [] c = "E" -> "e"
      [] OTHER   -> c

RECURSIVE trimLeft(_)
trimLeft(t) == IF t # << >> /\ Head(t) = " " THEN trimLeft(Tail(t)) ELSE t

RECURSIVE trimRight(_)
trimRight(t) ==
    IF t # << >> /\ t[Len(t)] = " " THEN trimRight(SubSeq(t, 1, Len(t) - 1)) ELSE t

\* title.toLowerCase().trim()
normTitle(t) == trimRight(trimLeft([k \in 1..Len(t) |-> lowerChar(t[k])]))

\* a.includes(b)
includes(a, b) ==
    \E k \in 0..(Len(a) - Len(b)) : SubSeq(a, k + 1, k + Len(b)) = b

\* authors[0].family?.toLowerCase().trim(), "" when there is none
firstFamily(ext) ==
    IF Len(ext.authors) > 0 THEN trim(toLowerCase(ext.authors[1])) ELSE ""

\* the loose field-match rule
extractionsMatchByFields(ext1, ext2) ==
    \/ /\ ext1.doi # "" /\ ext2.doi # ""
       /\ toLowerCase(ext1.doi) = toLowerCase(ext2.doi)
    \/ /\ ext1.pmid # "" /\ ext2.pmid # ""
       /\ ext1.pmid = ext2.pmid
    \/ /\ ext1.isbn # "" /\ ext2.isbn # ""
       /\ stripIsbn(ext1.isbn) = stripIsbn(ext2.isbn)
    \/ /\ Len(ext1.authors) > 0 /\ Len(ext2.authors) > 0
       /\ firstFamily(ext1) # "" /\ firstFamily(ext2) # ""
       /\ firstFamily(ext1) = firstFamily(ext2)
    \/ /\ ext1.title # << >> /\ ext2.title # << >>
       /\ LET title1 == normTitle(ext1.title)
              title2 == normTitle(ext2.title)
              minLen == Min(Len(title1), Len(title2))
              checkLen == Min(15, minLen)
          IN  /\ minLen >= 10
              /\ \/ includes(title1, title2)
                 \/ includes(title2, title1)
                 \/ SubSeq(title1, 1, checkLen) = SubSeq(title2, 1, checkLen)
    \/ /\ ext1.year # "" /\ ext2.year # ""
       /\ ext1.container_title # "" /\ ext2.container_title # ""
       /\ ext1.year = ext2.year
       /\ toLowerCase(ext1.container_title) = toLowerCase(ext2.container_title)

extractionsOverlap(ext1, ext2) ==
    /\ ~(ext1.error \/ ext2.error)
    /\ ~(ext1.complete # FALSE \/ ext2.complete # FALSE)
    /\ \/ ext1.position = "end" /\ ext2.position = "start"
       \/ ext1.position = "start" /\ ext2.position = "end"
    /\ extractionsMatchByFields(ext1, ext2)

completeSupersedes(incompleteEnd, completeExtraction) ==
    /\ ~(incompleteEnd.error \/ completeExtraction.error)
    /\ ~(incompleteEnd.complete # FALSE \/ incompleteEnd.position # "end")
    /\ completeExtraction.complete # FALSE
    /\ extractionsMatchByFields(incompleteEnd, completeExtraction)

\* the longer of two text fields; the end side's when the lengths are equal
\* or the start side has none
longerText(e, s, eLength, sLength, absent) ==
    IF e = absent /\ s # absent THEN s
    ELSE IF e # absent /\ s # absent /\ sLength > eLength THEN s
    ELSE e

\* string lengths of the strings of the model (text fields other than title)
strLen(s) ==
    CASE s = ""       -> 0
      [] s = "Nature" -> 6
      [] s = "nature" -> 6
      [] s = "Nat"    -> 3
      [] OTHER        -> 1

\* (mutant) the start side's value wins wherever it has one
fillFromStart(e, s) == IF s # "" THEN s ELSE e

\* (mutant) the merged record keeps the end side's position and reason
mergeKeepingPosition(master, slave) ==
    LET endExtraction == IF master.position = "end" THEN master ELSE slave
    IN  [ endExtraction EXCEPT !.complete = TRUE ]

fillMissing(e, s) == IF e = "" /\ s # "" THEN s ELSE e

mergeExtractions(master, slave) ==
    LET endExtraction   == IF master.position = "end" THEN master ELSE slave
        startExtraction == IF master.position = "end" THEN slave ELSE master
    IN  [ endExtraction EXCEPT
            !.complete = TRUE,
            !.reason = "",
            !.position = "",
            !.raw_text =
                IF @ # << >> /\ startExtraction.raw_text # << >>
                THEN @ \o <<"\n">> \o startExtraction.raw_text
                ELSE IF @ = << >> /\ startExtraction.raw_text # << >>
                THEN startExtraction.raw_text
                ELSE @,
            !.title = longerText(@, startExtraction.title, Len(@), Len(startExtraction.title), << >>),
            !.container_title =
                longerText(@, startExtraction.container_title, strLen(@),
                           strLen(startExtraction.container_title), ""),
            !.query_bibliographic =
                longerText(@, startExtraction.query_bibliographic, strLen(@),
                           strLen(startExtraction.query_bibliographic), ""),
            !.doi = fillMissing(@, startExtraction.doi),
            !.pmid = fillMissing(@, startExtraction.pmid),
            !.isbn = fillMissing(@, startExtraction.isbn),
            !.year = fillMissing(@, startExtraction.year),
            !.volume = fillMissing(@, startExtraction.volume),
            !.issue = fillMissing(@, startExtraction.issue),
            !.pages = fillMissing(@, startExtraction.pages),
            !.authors =
                IF Len(startExtraction.authors) > Len(@)
                THEN startExtraction.authors ELSE @,
            !.authors_truncated = @ \/ startExtraction.authors_truncated ]

\* no call of mergeExtractions
NoMerge ==
    [ master |-> processExtraction(Blank, 0, 1),
      slave  |-> processExtraction(Blank, 1, 2),
      called |-> FALSE,
      merged |-> processExtraction(Blank, 0, 1) ]

\* ------------------------------------------------------------ deduplication

\* calculateSimilarity as the fraction num/den

RECURSIVE indexOfFrom(_, _, _)
\* longer.indexOf(char, from) with 1-based positions, 0 when there is none
indexOfFrom(longer, char, from) ==
    IF from > Len(longer) THEN 0
    ELSE IF longer[from] = char THEN from
    ELSE indexOfFrom(longer, char, from + 1)

RECURSIVE countMatches(_, _, _)
countMatches(shorter, longer, longerIdx) ==
    IF shorter = << >> THEN 0
    ELSE LET foundIdx == indexOfFrom(longer, Head(shorter), longerIdx)
         IN  IF foundIdx # 0
             THEN 1 + countMatches(Tail(shorter), longer, foundIdx + 1)
             ELSE countMatches(Tail(shorter), longer, longerIdx)

calculateSimilarity(str1, str2) ==
    IF str1 = << >> \/ str2 = << >> THEN [num |-> 0, den |-> 1]
    ELSE IF str1 = str2 THEN [num |-> 1, den |-> 1]
    ELSE LET longer  == IF Len(str1) > Len(str2) THEN str1 ELSE str2
             shorter == IF Len(str1) > Len(str2) THEN str2 ELSE str1
         IN  IF includes(longer, shorter)
             THEN [num |-> Len(shorter), den |-> Len(longer)]
             ELSE [num |-> 2 * countMatches(shorter, longer, 1),
                   den |-> Len(str1) + Len(str2)]

\* the strict duplicate rule
extractionsAreDuplicates(ext1, ext2) ==
    \/ /\ ext1.doi # "" /\ ext2.doi # ""
       /\ toLowerCase(ext1.doi) = toLowerCase(ext2.doi)
    \/ /\ ext1.pmid # "" /\ ext2.pmid # ""
       /\ ext1.pmid = ext2.pmid
    \/ /\ ext1.isbn # "" /\ ext2.isbn # ""
       /\ stripIsbn(ext1.isbn) = stripIsbn(ext2.isbn)
    \/ /\ ext1.title # << >> /\ ext2.title # << >>
       /\ LET titleSimilarity ==
                  calculateSimilarity(normTitle(ext1.title), normTitle(ext2.title))
          IN  ~(10 * titleSimilarity.num < 8 * titleSimilarity.den)
       /\ Len(ext1.authors) > 0 /\ Len(ext2.authors) > 0
       /\ firstFamily(ext1) # "" /\ firstFamily(ext2) # ""
       /\ firstFamily(ext1) = firstFamily(ext2)
       /\ ~(ext1.year # "" /\ ext2.year # "" /\ ext1.year # ext2.year)

\* scoreExtraction, in tenths of a point
scoreExtraction(ext) ==
      (CASE ext.validationStatus = "valid"      -> 1000
         [] ext.validationStatus = "suspicious" -> 500
         [] ext.validationStatus = "incomplete" -> 100
         [] ext.validationStatus = "invalid"    -> 50
         [] OTHER                               -> 0)
    + (IF ext.complete # FALSE THEN 500 ELSE 0)
    + (IF ext.doi # "" THEN 300 ELSE 0)
    + (IF ext.pmid # "" THEN 200 ELSE 0)
    + (IF ext.isbn # "" THEN 200 ELSE 0)
    + (IF ext.title # << >> THEN 100 ELSE 0)
    + (IF ext.year # "" THEN 50 ELSE 0)
    + (IF ext.container_title # "" THEN 50 ELSE 0)
    + (IF ext.volume # "" THEN 30 ELSE 0)
    + (IF ext.issue # "" THEN 30 ELSE 0)
    + (IF ext.pages # "" THEN 30 ELSE 0)
    + (IF Len(ext.authors) > 0 THEN 10 * Min(Len(ext.authors) * 2, 10) ELSE 0)
    + ext.windowIndex

\* (mutant) the later of the two is removed whatever the scores
removeSecond(ext1, ext2) == ext2.id

\* lines 530-538: the id one comparison of two duplicates marks for removal
removeLowerScore(ext1, ext2) ==
    IF scoreExtraction(ext1) >= scoreExtraction(ext2) THEN ext2.id ELSE ext1.id

\* The loops of deduplicateExtractions carry D: idsToRemove, and the history
\* of the comparisons made at line 528 (positions i and j in the list, and
\* the id marked for removal, << >> when the two are no duplicates).

\* (mutant) the inner loop stops at the first duplicate, whichever is removed
RECURSIVE dedupInnerStopAtFirst(_, _, _, _)
dedupInnerStopAtFirst(exts, i, j, D) ==
    IF j > Len(exts) THEN D
    ELSE IF exts[j].error \/ exts[j].id \in D.idsToRemove
    THEN dedupInnerStopAtFirst(exts, i, j + 1, D)
    ELSE IF extractionsAreDuplicates(exts[i], exts[j])
    THEN [idsToRemove |-> D.idsToRemove \cup {removeLowerScore(exts[i], exts[j])},
          comparisons |-> Append(D.comparisons,
                                 [i |-> i, j |-> j,
                                  removed |-> removeLowerScore(exts[i], exts[j])])]
    ELSE dedupInnerStopAtFirst(exts, i, j + 1,
                    [D EXCEPT !.comparisons =
                         Append(@, [i |-> i, j |-> j, removed |-> << >>])])

\* the inner loop over j for a fixed i
RECURSIVE dedupInner(_, _, _, _)
dedupInner(exts, i, j, D) ==
    IF j > Len(exts) THEN D
    ELSE IF exts[j].error \/ exts[j].id \in D.idsToRemove
    THEN dedupInner(exts, i, j + 1, D)
    ELSE IF extractionsAreDuplicates(exts[i], exts[j])
    THEN LET removed == removeLowerScore(exts[i], exts[j])
             D1 == [idsToRemove |-> D.idsToRemove \cup {removed},
                    comparisons |-> Append(D.comparisons,
                                           [i |-> i, j |-> j, removed |-> removed])]
         IN  IF removed = exts[j].id
             THEN dedupInner(exts, i, j + 1, D1)
             ELSE D1
    ELSE dedupInner(exts, i, j + 1,
                    [D EXCEPT !.comparisons =
                         Append(@, [i |-> i, j |-> j, removed |-> << >>])])

RECURSIVE dedupOuter(_, _, _)
dedupOuter(exts, i, D) ==
    IF i > Len(exts) THEN D
    ELSE IF exts[i].error \/ exts[i].id \in D.idsToRemove
    THEN dedupOuter(exts, i + 1, D)
    ELSE dedupOuter(exts, i + 1, dedupInner(exts, i, i + 1, D))

\* the loops of deduplicateExtractions on a list (lines 516-541)
dedupLoops(exts) ==
    dedupOuter(exts, 1, [idsToRemove |-> {}, comparisons |-> << >>])

\* the ids deduplicateExtractions removes from a list
duplicateIds(exts) ==
    IF Len(exts) < 2 THEN {} ELSE dedupLoops(exts).idsToRemove

\* (mutant) only the extraction list is filtered
deduplicateExtractionsOnly(M) ==
    LET idsToRemove == duplicateIds(M.extractions)
        Kept(e) == e.id \notin idsToRemove
    IN  [M EXCEPT !.extractions = SelectSeq(@, Kept)]

\* deduplicateExtractions on the state fields of M
deduplicateExtractions(M) ==
    LET idsToRemove == duplicateIds(M.extractions)
        Kept(e) == e.id \notin idsToRemove
    IN  [M EXCEPT !.extractions = SelectSeq(@, Kept),
                  !.processingResults = SelectSeq(@, Kept)]

\* addExtraction(state, extraction)
addExtraction(M, extraction) ==
    [M EXCEPT !.extractions = Append(@, extraction),
              !.processingResults = Append(@, extraction)]

\* -------------------------------------------------------- processAllWindows
\*
\* The run is one record M: the locals of processAllWindows, its two
\* limiters, the fields of the shared state object it touches, and a history
\* (log) of what it did.  Each operator below is a stretch of synchronous
\* code and maps M to M.
\*
\*   pc                   where processAllWindows is suspended:
\*                        "idle" (not called), "awaitExtraction" (line 195),
\*                        "awaitValidations" (line 295), "done" (returned)
\*   llmCall              the extraction call of window i: "none", "queued"
\*                        in llmLimiter, or "running"
\*   pendingValidations   one entry per startValidation call: the citation
\*                        and the phase of its task: "queued" in
\*                        validationLimiter, "lookup" (awaiting
\*                        validateCitation), "returned" (the task function
\*                        returned, its finally block is a queued microtask),
\*                        "settled"
\*   microtasks           the tasks whose finally block is yet to run

DefaultLLMRPM == 15
DefaultValidationRPM == 50
ValidationMaxConcurrent == 10

NewRun(totalWindows, maxLLMRPM, maxValidationRPM) ==
    [ pc |-> "idle",
      totalWindows |-> totalWindows,
      settings |-> [maxLLMRPM |-> maxLLMRPM, maxValidationRPM |-> maxValidationRPM],
      i |-> 0,
      extractionIndex |-> 0,
      pendingIncompleteEnd |-> << >>,
      newIncompleteEnd |-> << >>,
      pendingValidations |-> << >>,
      microtasks |-> << >>,
      llmLimiter |-> NewRateLimiter(0, 0),
      validationLimiter |-> NewRateLimiter(0, 0),
      llmCall |-> "none",
      extractions |-> << >>,
      processingResults |-> << >>,
      shouldCancel |-> FALSE,
      rawCount |-> 0,
      log |-> << >>,
      result |-> [totalExtractions |-> -1, cancelled |-> FALSE] ]

Note(M, event) == [M EXCEPT !.log = Append(@, event)]

\* (mutant) the task sends every citation to validateCitation
runValidationTaskLookupAll(M, k) ==
    IF M.shouldCancel
    THEN [M EXCEPT !.pendingValidations[k].phase = "returned",
                   !.microtasks = Append(@, k)]
    ELSE [M EXCEPT !.pendingValidations[k].phase = "lookup"]

\* (mutant) an incomplete citation is marked but never appended
runValidationTaskDropIncomplete(M, k) ==
    LET citation == M.pendingValidations[k].citation
    IN  IF M.shouldCancel \/ citation.complete = FALSE
        THEN [M EXCEPT !.pendingValidations[k].phase = "returned",
                       !.microtasks = Append(@, k)]
        ELSE [M EXCEPT !.pendingValidations[k].phase = "lookup"]

\* the validation task up to its first await (lines 146-159)
runValidationTask(M, k) ==
    LET citation == M.pendingValidations[k].citation
    IN  IF M.shouldCancel
        THEN [M EXCEPT !.pendingValidations[k].phase = "returned",
                       !.microtasks = Append(@, k)]
        ELSE IF citation.complete = FALSE
        THEN LET done == [citation EXCEPT
                             !.validationStatus = "incomplete",
                             !.validationMessage =
                                 IF citation.reason # "" THEN citation.reason
                                 ELSE "Entry incomplete"]
             IN  [addExtraction(M, done) EXCEPT
                     !.pendingValidations[k] = [citation |-> done, phase |-> "returned"],
                     !.microtasks = Append(@, k)]
        ELSE [M EXCEPT !.pendingValidations[k].phase = "lookup"]

RECURSIVE runValidationTasks(_, _)
runValidationTasks(M, started) ==
    IF started = << >> THEN M
    ELSE runValidationTasks(runValidationTask(M, Head(started)), Tail(started))

\* startValidation(citation)
startValidation(M, citation) ==
    LET k == Len(M.pendingValidations) + 1
        r == schedule(M.validationLimiter, k)
        M1 == [Note(M, [ev |-> "route", citation |-> citation, w |-> M.i + 1]) EXCEPT
                  !.validationLimiter = r.lim,
                  !.pendingValidations =
                      Append(@, [citation |-> citation, phase |-> "queued"])]
    IN  runValidationTasks(M1, r.started)

RECURSIVE startValidations(_, _)
startValidations(M, citations) ==
    IF citations = << >> THEN M
    ELSE startValidations(startValidation(M, Head(citations)), Tail(citations))

\* (mutant) only the first pending entry is finalized
flushPendingFirstOnly(M) ==
    IF M.pendingIncompleteEnd = << >> THEN M
    ELSE startValidation(M, Head(M.pendingIncompleteEnd))

\* for (const pending of pendingIncompleteEnd) startValidation(pending)
flushPending(M) == startValidations(M, M.pendingIncompleteEnd)

\* findMatchingPendingEnd: the 0-based index of the first match, or -1
RECURSIVE firstOverlapFrom(_, _, _)
firstOverlapFrom(pending, startExtraction, i) ==
    IF i >= Len(pending) THEN -1
    ELSE IF extractionsOverlap(pending[i + 1], startExtraction) THEN i
    ELSE firstOverlapFrom(pending, startExtraction, i + 1)

findMatchingPendingEnd(pending, startExtraction) ==
    IF startExtraction.complete # FALSE \/ startExtraction.position # "start"
    THEN -1
    ELSE firstOverlapFrom(pending, startExtraction, 0)

\* lines 259-265: the 0-based index of the last pending entry the complete
\* extraction supersedes, or -1
RECURSIVE lastSupersededFrom(_, _, _)
lastSupersededFrom(pending, processed, k) ==
    IF k < 0 THEN -1
    ELSE IF completeSupersedes(pending[k + 1], processed) THEN k
    ELSE lastSupersededFrom(pending, processed, k - 1)

\* (mutant) the matched entry stays in the pending list
spliceNothing(pending, index) == pending

\* pendingIncompleteEnd.splice(index, 1)
splice(pending, index) == RemoveAt(pending, index + 1)

\* (mutant) every matching pending entry is discarded
supersedeAll(pending, processed) ==
    SelectSeq(pending, LAMBDA p : ~completeSupersedes(p, processed))

\* (mutant) the loop runs from the front: the first matching entry goes
RECURSIVE firstSupersededFrom(_, _, _)
firstSupersededFrom(pending, processed, k) ==
    IF k >= Len(pending) THEN -1
    ELSE IF completeSupersedes(pending[k + 1], processed) THEN k
    ELSE firstSupersededFrom(pending, processed, k + 1)

supersedeFirst(pending, processed) ==
    LET k == firstSupersededFrom(pending, processed, 0)
    IN  IF k >= 0 THEN splice(pending, k) ELSE pending

\* lines 258-266: the pending list after a complete extraction was seen
supersede(pending, processed) ==
    LET k == lastSupersededFrom(pending, processed, Len(pending) - 1)
    IN  IF k >= 0 THEN splice(pending, k) ELSE pending

\* one iteration of the citation loop (lines 223-272)
handleCitation(M, citation, isLastWindow) ==
    LET processed == processExtraction(citation, M.extractionIndex, M.i + 1)
        matchIndex == findMatchingPendingEnd(M.pendingIncompleteEnd, processed)
    IN  IF processed.complete = FALSE /\ processed.position = "start" /\ matchIndex >= 0
        THEN \* Case 1: merge with the pending end
             LET pendingEnd == M.pendingIncompleteEnd[matchIndex + 1]
                 endExtraction == mergeExtractions(pendingEnd, processed)
                 after == splice([M.pendingIncompleteEnd EXCEPT
                                      ![matchIndex + 1] = endExtraction],
                                 matchIndex)
                 M1 == [Note(M, [ev |-> "merged", w |-> M.i + 1,
                                 id |-> pendingEnd.id,
                                 end |-> pendingEnd, start |-> processed,
                                 endText |-> pendingEnd.raw_text,
                                 startText |-> processed.raw_text,
                                 pendingAfter |-> after]) EXCEPT
                           !.pendingIncompleteEnd = after]
             IN  startValidation(M1, endExtraction)
        ELSE IF processed.complete = FALSE /\ processed.position = "end" /\ ~isLastWindow
        THEN \* Case 2: hold for the next window
             [Note(M, [ev |-> "held", w |-> M.i + 1, citation |-> processed]) EXCEPT
                 !.newIncompleteEnd = Append(@, processed),
                 !.extractionIndex = @ + 1]
        ELSE \* Case 3 and Case 4
             LET after == IF processed.complete # FALSE
                          THEN supersede(M.pendingIncompleteEnd, processed)
                          ELSE M.pendingIncompleteEnd
                 M1 == [Note(M, [ev |-> "final", w |-> M.i + 1,
                                 citation |-> processed,
                                 pendingBefore |-> M.pendingIncompleteEnd,
                                 pendingAfter |-> after]) EXCEPT
                           !.pendingIncompleteEnd = after]
             IN  [startValidation(M1, processed) EXCEPT !.extractionIndex = @ + 1]

\* (mutant) the loop stops after the first citation
handleFirstCitation(M, citations, isLastWindow) ==
    IF citations = << >> \/ M.shouldCancel THEN M
    ELSE handleCitation(M, Head(citations), isLastWindow)

\* for (let j = 0; j < citations.length; j++), with the cancel check
RECURSIVE handleCitations(_, _, _)
handleCitations(M, citations, isLastWindow) ==
    IF citations = << >> \/ M.shouldCancel THEN M
    ELSE handleCitations(handleCitation(M, Head(citations), isLastWindow),
                         Tail(citations), isLastWindow)

\* (mutant) the entries held by the window join the pending list
handleWindowKeepPending(M, citations) ==
    LET isLastWindow == (M.i = M.totalWindows - 1)
        M1 == handleCitations([M EXCEPT !.newIncompleteEnd = << >>],
                              citations, isLastWindow)
        M2 == flushPending(M1)
    IN  [M2 EXCEPT !.pendingIncompleteEnd = @ \o M2.newIncompleteEnd,
                   !.newIncompleteEnd = << >>]

\* lines 217-282: a window whose extraction call returned citations
handleWindow(M, citations) ==
    LET isLastWindow == (M.i = M.totalWindows - 1)
        M1 == handleCitations([M EXCEPT !.newIncompleteEnd = << >>],
                              citations, isLastWindow)
        M2 == flushPending(M1)
    IN  [M2 EXCEPT !.pendingIncompleteEnd = M2.newIncompleteEnd,
                   !.newIncompleteEnd = << >>]

\* (mutant) the error path leaves the pending entries where they are
handleWindowErrorKeepPending(M) ==
    LET errorExtraction == createErrorExtraction(M.extractionIndex, M.i + 1, "error")
    IN  [addExtraction(M, errorExtraction) EXCEPT !.extractionIndex = @ + 1]

\* (mutant) the error record does not consume its index
handleWindowErrorSameIndex(M) ==
    LET M1 == flushPending(M)
        M2 == [M1 EXCEPT !.pendingIncompleteEnd = << >>]
        errorExtraction == createErrorExtraction(M2.extractionIndex, M2.i + 1, "error")
    IN  addExtraction(M2, errorExtraction)

\* lines 200-215: a window whose extraction call failed
handleWindowError(M) ==
    LET M1 == flushPending(M)
        M2 == [M1 EXCEPT !.pendingIncompleteEnd = << >>]
        errorExtraction == createErrorExtraction(M2.extractionIndex, M2.i + 1, "error")
    IN  [addExtraction(M2, errorExtraction) EXCEPT !.extractionIndex = @ + 1]

\* the extraction call of window i starts (the task llmLimiter executes)
startLLMCall(M) ==
    [Note(M, [ev |-> "call", w |-> M.i + 1]) EXCEPT !.llmCall = "running"]

\* lines 298-309
finishRun(M) ==
    LET D == deduplicateExtractions(M)
    IN  [Note(D, [ev |-> "dedup", w |-> 0, before |-> M.extractions]) EXCEPT
            !.pc = "done",
            !.result = [totalExtractions |-> Len(D.extractions),
                        cancelled |-> D.shouldCancel]]

\* lines 285-296: after the loop
afterLoop(M) ==
    LET M1 == IF ~M.shouldCancel THEN flushPending(M) ELSE M
    IN  IF Len(M1.pendingValidations) > 0
        THEN [M1 EXCEPT !.pc = "awaitValidations"]
        ELSE finishRun(M1)

\* the top of the window loop (lines 182-195), from the current i
loopTop(M) ==
    IF M.i < M.totalWindows /\ ~M.shouldCancel
    THEN LET r == schedule(M.llmLimiter, M.i)
             M1 == [M EXCEPT !.llmLimiter = r.lim,
                             !.pc = "awaitExtraction",
                             !.llmCall = "queued"]
         IN  IF r.started # << >> THEN startLLMCall(M1) ELSE M1
    ELSE afterLoop(M)

\* the end of the loop body: i++ and the loop test
nextIteration(M) == loopTop([M EXCEPT !.i = @ + 1])

\* (mutant) the error path leaves the loop
continueAfterErrorBreak(M) == afterLoop(M)

\* continue (line 214)
continueAfterError(M) == nextIteration(M)

\* the queued microtasks: the finally block of every validation task that
\* returned, which may start queued tasks, which may return at once
RECURSIVE drain(_)
drain(M) ==
    IF M.microtasks = << >> THEN M
    ELSE LET k == Head(M.microtasks)
             r == finishTask(M.validationLimiter)
             M1 == [M EXCEPT !.microtasks = Tail(@),
                             !.pendingValidations[k].phase = "settled",
                             !.validationLimiter = r.lim]
         IN  drain(runValidationTasks(M1, r.started))

AllSettled(M) ==
    \A k \in 1..Len(M.pendingValidations) : M.pendingValidations[k].phase = "settled"

\* (mutant) the run goes on to deduplicate without waiting for the validations
endOfTaskEarly(M) ==
    LET M1 == drain(M)
    IN  IF M1.pc = "awaitValidations" THEN finishRun(M1) ELSE M1

\* the end of a macrotask: the microtasks run, and Promise.allSettled
\* resumes processAllWindows once every validation promise has settled
endOfTask(M) ==
    LET M1 == drain(M)
    IN  IF M1.pc = "awaitValidations" /\ AllSettled(M1) THEN finishRun(M1) ELSE M1

\* ------------------------------------------------------------ match scoring

\* FIELD_WEIGHTS, in tenths (lines 326-334)
FIELD_WEIGHTS ==
    [ title |-> 100, authors |-> 80, year |-> 60, journal |-> 5,
      volume |-> 2, pages |-> 2, doi |-> 10 ]

\* THRESHOLDS, in hundredths (lines 339-343)
THRESHOLDS == [ valid |-> 90, suspicious |-> 70 ]

RECURSIVE gcd(_, _)
gcd(a, b) == IF b = 0 THEN a ELSE gcd(b, a % b)

\* scores are fractions n/d with n >= 0 and d > 0, kept exact and in lowest
\* terms
Frac(n, d) == [n |-> n \div gcd(n, d), d |-> d \div gcd(n, d)]
fracGeq(a, b) == a.n * b.d >= b.n * a.d
fracAdd(a, b) == Frac(a.n * b.d + b.n * a.d, a.d * b.d)
fracScale(a, k) == Frac(a.n * k, a.d)
fracOver(a, k) == Frac(a.n, a.d * k)

\* str.split(/\s+/) on a sequence of characters: a run of blanks separates two
\* words, and a leading or trailing run leaves an empty word at that end
RECURSIVE splitFrom(_, _, _, _)
splitFrom(t, k, word, words) ==
    IF k > Len(t) THEN Append(words, word)
    ELSE IF t[k] = " "
    THEN IF k > 1 /\ t[k - 1] = " "
         THEN splitFrom(t, k + 1, word, words)
         ELSE splitFrom(t, k + 1, << >>, Append(words, word))
    ELSE splitFrom(t, k + 1, Append(word, t[k]), words)

\* new Set(title.toLowerCase().split(/\s+/)) for a title
titleWords(t) == Range(splitFrom([k \in 1..Len(t) |-> lowerChar(t[k])], 1, << >>, << >>))

\* new Set(str.toLowerCase().split(/\s+/)) on the strings of the model
\* (family names and journal names)
stringWords(s) ==
    CASE s = "Nature Physics" -> {"nature", "physics"}
      [] s = "nature physics" -> {"nature", "physics"}
      [] OTHER                -> {toLowerCase(s)}

\* stringSimilarity (similarity.js lines 9-27) on the two sets of words;
\* absent is TRUE when one of the two strings is empty
stringSimilarity(absent, words1, words2) ==
    IF absent THEN Frac(0, 1)
    ELSE LET intersectionSize == Cardinality(words1 \cap words2)
             unionSize == Cardinality(words1) + Cardinality(words2) - intersectionSize
         IN  IF unionSize > 0 THEN Frac(intersectionSize, unionSize) ELSE Frac(0, 1)

\* the similarity of two family names
familySimilarity(f1, f2) ==
    stringSimilarity(f1 = "" \/ f2 = "", stringWords(f1), stringWords(f2))

\* compareAuthors: the lists hold the family names
compareAuthors(extracted, validated) ==
    IF Len(extracted) = 0 \/ Len(validated) = 0 THEN Frac(0, 1)
    ELSE LET ext1 == toLowerCase(extracted[1])
             val1 == toLowerCase(validated[1])
         IN  IF ext1 = "" \/ val1 = "" THEN Frac(0, 1)
             ELSE LET firstAuthorSim == familySimilarity(ext1, val1)
                  IN  IF Len(extracted) > 1 /\ Len(validated) > 1
                      THEN LET extLast == toLowerCase(extracted[Len(extracted)])
                               valLast == toLowerCase(validated[Len(validated)])
                               lastAuthorSim == familySimilarity(extLast, valLast)
                           IN  fracAdd(fracOver(fracScale(firstAuthorSim, 7), 10),
                                       fracOver(fracScale(lastAuthorSim, 3), 10))
                      ELSE firstAuthorSim

\* the normalize of comparePages on the strings of the model: an abbreviated
\* end page is expanded
normalizePages(p) ==
    CASE p = "806-14" -> "806-814"
      [] OTHER        -> p

comparePages(pages1, pages2) ==
    IF pages1 = "" \/ pages2 = "" THEN 0
    ELSE IF normalizePages(pages1) = normalizePages(pages2) THEN 1 ELSE 0

\* parseInt(year, 10) on the strings of the model; 0 stands for null
parseYear(year) ==
    CASE year = "2020" -> 2020
      [] year = "2021" -> 2021
      [] OTHER         -> 0

\* normalizeExtracted (lines 393-421)
normalizeExtracted(citation) ==
    [ title |-> citation.title, authors |-> citation.authors,
      year |-> parseYear(citation.year), journal |-> citation.container_title,
      volume |-> citation.volume, pages |-> citation.pages, doi |-> citation.doi ]

\* an external record in the common format of normalizeCrossRef and
\* normalizeOpenAlex, with every field absent
BlankRecord ==
    [ title |-> << >>, authors |-> << >>, year |-> 0, journal |-> "",
      volume |-> "", pages |-> "", doi |-> "" ]

\* the fields computeMatchScore compares, in its order
ScoredFields == <<"title", "authors", "year", "journal", "volume", "pages">>

\* the guard of each comparison of computeMatchScore
bothPresent(extNorm, valNorm, field) ==
    CASE field = "title"   -> extNorm.title # << >> /\ valNorm.title # << >>
      [] field = "authors" -> Len(extNorm.authors) # 0 /\ Len(valNorm.authors) # 0
      [] field = "year"    -> extNorm.year # 0 /\ valNorm.year # 0
      [] OTHER             -> extNorm[field] # "" /\ valNorm[field] # ""

\* the score of one compared field
fieldScore(extNorm, valNorm, field) ==
    CASE field = "title" ->
             stringSimilarity(FALSE, titleWords(extNorm.title), titleWords(valNorm.title))
      [] field = "authors" -> compareAuthors(extNorm.authors, valNorm.authors)
      [] field = "year" -> Frac(IF extNorm.year = valNorm.year THEN 1 ELSE 0, 1)
      [] field = "journal" ->
             stringSimilarity(FALSE, stringWords(extNorm.journal), stringWords(valNorm.journal))
      [] field = "volume" -> Frac(IF extNorm.volume = valNorm.volume THEN 1 ELSE 0, 1)
      [] field = "pages" -> Frac(comparePages(extNorm.pages, valNorm.pages), 1)

\* weightedSum and totalWeight after the comparisons of fields k..6
RECURSIVE accumulate(_, _, _, _)
accumulate(fieldScores, k, weightedSum, totalWeight) ==
    IF k > Len(ScoredFields)
    THEN [weightedSum |-> weightedSum, totalWeight |-> totalWeight]
    ELSE LET field == ScoredFields[k]
         IN  IF field \in DOMAIN fieldScores
             THEN accumulate(fieldScores, k + 1,
                             fracAdd(weightedSum,
                                     fracScale(fieldScores[field], FIELD_WEIGHTS[field])),
                             totalWeight + FIELD_WEIGHTS[field])
             ELSE accumulate(fieldScores, k + 1, weightedSum, totalWeight)

\* (mutant) the divisor is the weight of all six fields, compared or not
overallOfAllWeights(sums) ==
    fracOver(sums.weightedSum,
             FIELD_WEIGHTS.title + FIELD_WEIGHTS.authors + FIELD_WEIGHTS.year
             + FIELD_WEIGHTS.journal + FIELD_WEIGHTS.volume + FIELD_WEIGHTS.pages)

\* totalWeight > 0 ? weightedSum / totalWeight : 0
overallOf(sums) ==
    IF sums.totalWeight > 0
    THEN fracOver(sums.weightedSum, sums.totalWeight)
    ELSE Frac(0, 1)

computeMatchScore(extracted, validated) ==
    LET extNorm == normalizeExtracted(extracted)
        valNorm == validated
        compared == { k \in 1..Len(ScoredFields) :
                        bothPresent(extNorm, valNorm, ScoredFields[k]) }
        fieldScores ==
            [ field \in { ScoredFields[k] : k \in compared } |->
                fieldScore(extNorm, valNorm, field) ]
    IN  [ overall |-> overallOf(accumulate(fieldScores, 1, Frac(0, 1), 0)),
          fields |-> fieldScores,
          fieldsCompared |-> Cardinality(DOMAIN fieldScores) ]

\* Math.round(overall * 100)
percent(overall) == (200 * overall.n + overall.d) \div (2 * overall.d)

\* (mutant) a score on a threshold falls below it
getValidationStatusAbove(matchScore, lookupMethod) ==
    IF ~fracGeq(Frac(THRESHOLDS.valid, 100), matchScore.overall)
    THEN [status |-> "valid", message |-> <<lookupMethod, "", percent(matchScore.overall)>>]
    ELSE IF ~fracGeq(Frac(THRESHOLDS.suspicious, 100), matchScore.overall)
    THEN [status |-> "suspicious",
          message |-> <<lookupMethod, " - possible mismatch", percent(matchScore.overall)>>]
    ELSE [status |-> "mismatch",
          message |-> <<lookupMethod, " - content mismatch", percent(matchScore.overall)>>]

\* getValidationStatus (lines 549-566); the message is the lookup method, the
\* remark and the percentage
getValidationStatus(matchScore, lookupMethod) ==
    IF fracGeq(matchScore.overall, Frac(THRESHOLDS.valid, 100))
    THEN [status |-> "valid", message |-> <<lookupMethod, "", percent(matchScore.overall)>>]
    ELSE IF fracGeq(matchScore.overall, Frac(THRESHOLDS.suspicious, 100))
    THEN [status |-> "suspicious",
          message |-> <<lookupMethod, " - possible mismatch", percent(matchScore.overall)>>]
    ELSE [status |-> "mismatch",
          message |-> <<lookupMethod, " - content mismatch", percent(matchScore.overall)>>]

\* no call of computeMatchScore
NoScoring ==
    [ extracted |-> processExtraction(Blank, 0, 1), validated |-> BlankRecord,
      called |-> FALSE,
      matchScore |-> [overall |-> Frac(0, 1), fields |-> << >>, fieldsCompared |-> 0],
      status |-> "", message |-> << >> ]

\* ---------------------------------------------------------- validateCitation

\* what a lookup resolves to: null, or a record of the authority
Null == [found |-> FALSE, record |-> BlankRecord]
Found(record) == [found |-> TRUE, record |-> record]

\* no call of validateCitation.  calls is the history of the requests made,
\* yielded the history of the steps that have settled, each with what the
\* requests resolved to and whether that gave a record
NoValidation ==
    [ citation |-> processExtraction(Blank, 0, 1), pc |-> "idle",
      validation |-> [crossref |-> Null, openalex |-> Null,
                      matchScore |-> NoScoring.matchScore, scored |-> FALSE],
      calls |-> << >>, yielded |-> << >> ]

\* lines 668-670
noneFound(V) ==
    [V EXCEPT !.citation.validationStatus = "invalid",
              !.citation.validationMessage = <<"Could not verify citation">>,
              !.pc = "done"]

\* a found record is scored and judged
judged(V, matchScore, lookupMethod) ==
    LET verdict == getValidationStatus(matchScore, lookupMethod)
    IN  [V EXCEPT !.validation.matchScore = matchScore,
                  !.validation.scored = TRUE,
                  !.citation.validationStatus = verdict.status,
                  !.citation.validationMessage = verdict.message,
                  !.pc = "done"]

\* step 3 up to its await (lines 643-646)
trySearch(V) ==
    IF V.citation.query_bibliographic # "" \/ V.citation.raw_text # << >>
    THEN [V EXCEPT !.pc = "search",
                   !.calls = Append(@, "crossref.searchBibliographic")]
    ELSE noneFound(V)

\* step 2 up to its await (lines 620-623)
tryPmid(V) ==
    IF V.citation.pmid # ""
    THEN [V EXCEPT !.pc = "pmid", !.calls = Append(@, "openalex.lookupPMID")]
    ELSE trySearch(V)

\* step 1 up to its await (lines 573-581)
tryDoi(V) ==
    IF V.citation.doi # ""
    THEN [V EXCEPT !.pc = "doi",
                   !.calls = @ \o <<"crossref.lookupDOI", "openalex.lookupDOI">>]
    ELSE tryPmid(V)

\* (mutant) the second authority's record is scored when both return one
doiSettledOpenAlexFirst(V, crossRefResult, openAlexResult) ==
    LET W == [V EXCEPT !.yielded =
                 Append(@, [step |-> "doi",
                            found |-> crossRefResult.found \/ openAlexResult.found,
                            results |-> <<crossRefResult, openAlexResult>>])]
    IN  IF openAlexResult.found
        THEN judged([W EXCEPT !.validation.openalex = openAlexResult],
                    computeMatchScore(W.citation, openAlexResult.record),
                    "DOI verified via OpenAlex")
        ELSE IF crossRefResult.found
        THEN judged([W EXCEPT !.validation.crossref = crossRefResult],
                    computeMatchScore(W.citation, crossRefResult.record),
                    "DOI verified via CrossRef")
        ELSE tryPmid(W)

\* the two DOI lookups have settled (lines 583-614)
doiSettled(V, crossRefResult, openAlexResult) ==
    LET W == [V EXCEPT !.yielded =
                 Append(@, [step |-> "doi",
                            found |-> crossRefResult.found \/ openAlexResult.found,
                            results |-> <<crossRefResult, openAlexResult>>])]
    IN  IF crossRefResult.found
        THEN judged([W EXCEPT !.validation.crossref = crossRefResult,
                              !.validation.openalex = openAlexResult],
                    computeMatchScore(W.citation, crossRefResult.record),
                    "DOI verified via CrossRef")
        ELSE IF openAlexResult.found
        THEN judged([W EXCEPT !.validation.openalex = openAlexResult],
                    computeMatchScore(W.citation, openAlexResult.record),
                    "DOI verified via OpenAlex")
        ELSE tryPmid(W)

\* .catch(() => null) on a lookup (lines 579-580)
catchNull(thrown, result) == IF thrown THEN Null ELSE result

\* lines 577-581: the two DOI lookups settle, each fulfilled or rejected
doiLookupsSettled(V, crossRefThrows, crossRefResult, openAlexThrows, openAlexResult) ==
    LET W == doiSettled(V, catchNull(crossRefThrows, crossRefResult),
                           catchNull(openAlexThrows, openAlexResult))
    IN  [W EXCEPT !.yielded[Len(V.yielded) + 1] =
                     @ @@ [thrown |-> <<crossRefThrows, openAlexThrows>>]]

\* (mutant) the rejection of the PMID lookup leaves validateCitation
pmidSettledNoCatch(V, thrown, openAlexResult) ==
    LET W == [V EXCEPT !.yielded =
                 Append(@, [step |-> "pmid", found |-> ~thrown /\ openAlexResult.found,
                            thrown |-> <<thrown>>,
                            results |-> IF thrown THEN << >> ELSE <<openAlexResult>>])]
    IN  IF thrown THEN [W EXCEPT !.pc = "threw"]
        ELSE IF openAlexResult.found
        THEN judged([W EXCEPT !.validation.openalex = openAlexResult],
                    computeMatchScore(W.citation, openAlexResult.record),
                    "PMID verified via OpenAlex")
        ELSE trySearch(W)

\* the PMID lookup has settled (lines 624-638); a rejection is caught
pmidSettled(V, thrown, openAlexResult) ==
    LET found == ~thrown /\ openAlexResult.found
        W == [V EXCEPT !.yielded =
                 Append(@, [step |-> "pmid", found |-> found,
                            thrown |-> <<thrown>>,
                            results |-> IF thrown THEN << >> ELSE <<openAlexResult>>])]
    IN  IF found
        THEN judged([W EXCEPT !.validation.openalex = openAlexResult],
                    computeMatchScore(W.citation, openAlexResult.record),
                    "PMID verified via OpenAlex")
        ELSE trySearch(W)

\* findBestMatch (lines 702-721): the first result of the highest overall score
RECURSIVE bestFrom(_, _, _, _)
bestFrom(citation, results, k, best) ==
    IF k > Len(results) THEN best
    ELSE LET matchScore == computeMatchScore(citation, results[k])
         IN  IF ~best.found \/ ~fracGeq(best.score.overall, matchScore.overall)
             THEN bestFrom(citation, results, k + 1,
                           [found |-> TRUE, result |-> results[k], score |-> matchScore])
             ELSE bestFrom(citation, results, k + 1, best)

findBestMatch(citation, results) ==
    bestFrom(citation, results, 1,
             [found |-> FALSE, result |-> BlankRecord, score |-> NoScoring.matchScore])

\* the search has settled (lines 648-664); a rejection is caught
searchSettled(V, thrown, crossRefResults) ==
    LET match == findBestMatch(V.citation, crossRefResults)
        found == ~thrown /\ Len(crossRefResults) > 0 /\ match.found
        W == [V EXCEPT !.yielded =
                 Append(@, [step |-> "search", found |-> found,
                            thrown |-> <<thrown>>,
                            results |-> IF thrown THEN << >>
                                        ELSE [k \in 1..Len(crossRefResults) |->
                                                 Found(crossRefResults[k])]])]
    IN  IF found
        THEN judged([W EXCEPT !.validation.crossref = Found(match.result)],
                    match.score, "Matched via bibliographic search")
        ELSE noneFound(W)

\* ------------------------------------------------- runAll and runAllSettled

\* what task t resolves with, and what it rejects with
ValueOf(t) == <<"value", t>>
ErrorOf(t) == <<"error", t>>

\* what a throwing onComplete throws
CallbackError == <<"error", "onComplete">>

\* an array slot nothing was assigned to
Empty == <<"empty">>

\* no call of runAll or runAllSettled.  results is the array, promises the
\* state of the promise tasks.map made for each task, outcome that of the
\* promise the call returned
NoRunAll ==
    [ kind |-> "runAll", onComplete |-> "none", tasks |-> 0, called |-> FALSE,
      results |-> << >>, promises |-> << >>, outcome |-> "pending",
      completed |-> << >> ]

\* tasks.map(... this.schedule(task) ...): the tasks are scheduled in index
\* order
RECURSIVE scheduleFrom(_, _, _, _)
scheduleFrom(L, t, n, acc) ==
    IF t > n THEN [lim |-> L, started |-> acc.started, queued |-> acc.queued]
    ELSE LET r == schedule(L, t)
         IN  scheduleFrom(r.lim, t + 1, n,
                          IF r.started = << >>
                          THEN [acc EXCEPT !.queued = Append(@, t)]
                          ELSE [acc EXCEPT !.started = @ \o r.started])

\* await Promise.all(promises): rejected with the first promise that rejects,
\* fulfilled when all have fulfilled
awaitAll(R) ==
    IF R.outcome # "pending" THEN R
    ELSE IF \E k \in 1..Len(R.promises) : R.promises[k] = "rejected"
    THEN [R EXCEPT !.outcome = "rejected"]
    ELSE IF \A k \in 1..Len(R.promises) : R.promises[k] = "fulfilled"
    THEN [R EXCEPT !.outcome = "returned"]
    ELSE R

\* the call up to its await (lines 115-126 and 138-155)
called(R) ==
    awaitAll([R EXCEPT !.called = TRUE,
                       !.results = [k \in 1..R.tasks |-> Empty],
                       !.promises = [k \in 1..R.tasks |-> "pending"]])

\* the .then of runAll for task index (lines 118-124)
runAllThen(R, index, fulfilled) ==
    IF ~fulfilled THEN [R EXCEPT !.promises[index] = "rejected"]
    ELSE [R EXCEPT !.results[index] = ValueOf(index),
                   !.promises[index] =
                       IF R.onComplete = "throws" THEN "rejected" ELSE "fulfilled"]

\* the .then and the .catch of runAllSettled for task index (lines 140-152):
\* the .catch also takes what the .then handler throws
runAllSettledThenCatch(R, index, fulfilled) ==
    LET thenThrows == fulfilled /\ R.onComplete = "throws"
        caught == ~fulfilled \/ thenThrows
        reason == IF fulfilled THEN CallbackError ELSE ErrorOf(index)
    IN  [R EXCEPT !.results[index] =
                      IF caught
                      THEN [status |-> "rejected", reason |-> reason]
                      ELSE [status |-> "fulfilled", value |-> ValueOf(index)],
                  !.promises[index] =
                      IF caught /\ R.onComplete = "throws"
                      THEN "rejected" ELSE "fulfilled"]

\* the promise schedule() returned for task index settles
taskSettled(R, index, fulfilled) ==
    LET S == IF R.kind = "runAll"
             THEN runAllThen(R, index, fulfilled)
             ELSE runAllSettledThenCatch(R, index, fulfilled)
    IN  awaitAll([S EXCEPT !.completed = Append(@, index)])

\* ------------------------------------------------------------------ the page
\*
\* The page is one record U: the value of the textarea (a text, as
\* createWindows sees it), the values of the window-size and overlap inputs
\* (the number typed, 0 for a value parseInt makes nothing of), whether the
\* textarea or the read-only view is shown, whether the debounce timer of
\* handleInput is armed, and state.currentWindows.  Its histories: the list
\* state.currentWindows held when the run started, the window the iteration
\* under way read (line 185), and every window the run read.  state.extractions,
\* state.processingResults and state.shouldCancel are fields of the run pw.

\* state.currentWindows[i] past the end of the list
Undefined == [index |-> -1, start |-> -1, end |-> -1, length |-> -1]

NoUI ==
    [ text |-> [length |-> 0, blank |-> TRUE], windowSize |-> 0, overlap |-> 0,
      mode |-> "edit", debounce |-> FALSE, currentWindows |-> << >>,
      runs |-> 0, atStart |-> << >>, win |-> Undefined, reads |-> << >> ]

\* parseInt(value) || fallback
parseIntOr(value, fallback) == IF value = 0 THEN fallback ELSE value

\* processText (lines 196-209)
processText(U) ==
    [U EXCEPT !.currentWindows =
        IF U.text.length = 0 \/ U.text.blank THEN << >>
        ELSE createWindows(U.text, parseIntOr(U.windowSize, DefaultWindowSize),
                           parseIntOr(U.overlap, DefaultOverlap))]

\* state.isProcessing: set by startProcessing before it calls
\* processAllWindows, reset when that call has returned
isProcessing(M) == M.pc \notin {"idle", "done"}

\* clearExtractions(state)
clearExtractions(M) ==
    [M EXCEPT !.extractions = << >>, !.processingResults = << >>]

\* state.currentWindows[i]
windowAt(windows, i) == IF i + 1 <= Len(windows) THEN windows[i + 1] ELSE Undefined

\* an iteration of the window loop begins in the step from run P to run Q
iterationBegins(P, Q) ==
    Q.pc = "awaitExtraction" /\ (P.pc # "awaitExtraction" \/ Q.i # P.i)

\* const win = state.currentWindows[i] (line 185), where the step from run P
\* to run Q begins an iteration
readWindow(U, P, Q) ==
    IF iterationBegins(P, Q)
    THEN LET win == windowAt(U.currentWindows, Q.i)
         IN  [U EXCEPT !.win = win, !.reads = Append(@, [i |-> Q.i, win |-> win])]
    ELSE U

\* the specifications of one operation leave the calls of the others unmade
NoCalls ==
    /\ wn = NoWindowing /\ mg = NoMerge /\ sc = NoScoring /\ vc = NoValidation
    /\ ra = NoRunAll /\ ui = NoUI

\* --------------------------------------------- Spec: one RateLimiter alone

Init ==
    /\ \E c \in ConcurrentOptions, r \in RpmOptions : rl = NewRateLimiter(c, r)
    /\ status = [t \in Tasks |-> "unscheduled"]
    /\ startLog = << >>
    /\ startAge = << >>
    /\ enqLog = << >>
    /\ NoCalls
    /\ pw = NewRun(0, 0, 0)

MarkStarted(st, started) ==
    [t \in Tasks |-> IF t \in Range(started) THEN "running" ELSE st[t]]

NoteStarts(started) ==
    /\ startLog' = startLog \o started
    /\ startAge' = startAge \o [k \in 1..Len(started) |-> 0]

\* a caller passes the next task to schedule()
Schedule ==
    \E t \in Tasks :
        /\ status[t] = "unscheduled"
        /\ \A u \in Tasks : u < t => status[u] # "unscheduled"
        /\ LET r == schedule(rl, t)
           IN  /\ rl' = r.lim
               /\ status' = IF r.started = << >>
                            THEN [status EXCEPT ![t] = "queued"]
                            ELSE MarkStarted(status, r.started)
               /\ enqLog' = IF r.started = << >> THEN Append(enqLog, t) ELSE enqLog
               /\ NoteStarts(r.started)
               /\ UNCHANGED <<pw, fnVars>>

\* a running task's promise settles; the finally block runs
Complete ==
    \E t \in Tasks, outcome \in {"fulfilled", "rejected"} :
        /\ status[t] = "running"
        /\ LET r == finishTask(rl)
           IN  /\ rl' = r.lim
               /\ status' = MarkStarted([status EXCEPT ![t] = outcome], r.started)
               /\ NoteStarts(r.started)
               /\ UNCHANGED <<enqLog, pw, fnVars>>

\* a due timer fires: its callback calls _processQueue
TimerFires ==
    \E k \in 1..Len(rl.timers) :
        /\ rl.timers[k] = 0
        /\ LET r == processQueue([rl EXCEPT !.timers = RemoveAt(@, k)])
           IN  /\ rl' = r.lim
               /\ status' = MarkStarted(status, r.started)
               /\ NoteStarts(r.started)
               /\ UNCHANGED <<enqLog, pw, fnVars>>

\* time passes
Tick ==
    \E d \in Ticks :
        /\ rl' = advance(rl, d)
        /\ startAge' = MapSeq(LAMBDA a : Min(a + d, WINDOW_MS), startAge)
        /\ UNCHANGED <<status, startLog, enqLog, pw, fnVars>>

Next == Schedule \/ Complete \/ TimerFires \/ Tick

Spec == Init /\ [][Next]_vars

\* every started task completes, due timers fire, time keeps advancing
FairSpec ==
    /\ Init /\ [][Next]_vars
    /\ WF_vars(Complete) /\ WF_vars(TimerFires) /\ WF_vars(Tick)

\* ------------------------------------------- SpecPW: a run of processAllWindows

\* what the extraction service returns
EndX ==
    [Blank EXCEPT !.complete = FALSE, !.position = "end",
                  !.reason = "cut off at window end",
                  !.doi = "10.1/x", !.authors = <<"Smith">>,
                  !.raw_text = <<"Smith J. Intro to">>]
EndY ==
    [Blank EXCEPT !.complete = FALSE, !.position = "end",
                  !.doi = "10.2/y", !.authors = <<"Jones">>,
                  !.raw_text = <<"Jones K. Quantum">>]
StartX ==
    [Blank EXCEPT !.complete = FALSE, !.position = "start",
                  !.reason = "cut off at window start",
                  !.doi = "10.1/X", !.year = "2020",
                  !.raw_text = <<"Foo. Nature 2020">>]
FullX ==
    [Blank EXCEPT !.doi = "10.1/x", !.authors = <<"Smith">>, !.year = "2020",
                  !.raw_text = <<"Smith J. Intro to Foo. Nature 2020">>]

RawPool == {EndX, EndY, StartX, FullX}

Batches(n) == UNION { [1..m -> RawPool] : m \in 0..n }

\* the verdicts validateCitation leaves on a citation: those of
\* getValidationStatus (lines 549-566) and the 'invalid' of line 669
Verdicts == {"valid", "suspicious", "mismatch", "invalid"}

\* a lookup that scores the citation above the threshold, or finds nothing
FoundOrNot == {"valid", "invalid"}

\* settings.maxLLMRPM and settings.maxValidationRPM.  Not set (0), the
\* defaults of 15 and 50 requests per minute apply; a run of the model makes
\* fewer calls than that, so no call waits for the per-minute budget, no timer
\* is armed, and the passing of time changes nothing the run does: SpecPW has
\* no clock, and its lookups find every complete citation.  SpecPWTimed sets
\* low limits, has the clock and the timers, and lookups of either verdict.
DefaultSettings == { <<0, 0>> }
LowSettings == { <<1, 2>>, <<2, 1>> }

RunTicks == {60000}

InitRun(Settings) ==
    /\ rl = NewRateLimiter(0, 0)
    /\ status = [t \in Tasks |-> "unscheduled"]
    /\ startLog = << >>
    /\ startAge = << >>
    /\ enqLog = << >>
    /\ NoCalls
    /\ \E n \in 1..MaxWindows, rpm \in Settings :
           pw = NewRun(n, rpm[1], rpm[2])

InitPW == InitRun(DefaultSettings)

InitPWTimed == InitRun(LowSettings)

\* processAllWindows is called: lines 125-139, then the loop up to its await
runStarted(P) ==
    LET l == P.settings.maxLLMRPM
        v == P.settings.maxValidationRPM
        M == [P EXCEPT
                !.llmLimiter =
                    NewRateLimiter(1, IF l = 0 THEN DefaultLLMRPM ELSE l),
                !.validationLimiter =
                    NewRateLimiter(ValidationMaxConcurrent,
                                   IF v = 0 THEN DefaultValidationRPM ELSE v)]
    IN  endOfTask(loopTop(M))

StartRun ==
    /\ pw.pc = "idle"
    /\ pw' = runStarted(pw)
    /\ UNCHANGED <<rlVars, fnVars>>

\* the extraction call of window i settles; _executeTask's finally block runs
\* and processAllWindows resumes after line 195
llmCallSettled(M) ==
    [M EXCEPT !.llmLimiter = finishTask(@).lim, !.llmCall = "none"]

\* the call returned the citations: lines 194-283 and the loop up to its await
extractionReturned(P, citations) ==
    LET M == [Note(llmCallSettled(P),
                   [ev |-> "returned", w |-> P.i + 1, n |-> Len(citations),
                    cancelled |-> P.shouldCancel]) EXCEPT
                 !.rawCount = @ + Len(citations)]
    IN  endOfTask(nextIteration(handleWindow(M, citations)))

\* the call threw: lines 194-215 and the loop up to its await
extractionFailed(P) ==
    LET M == Note(llmCallSettled(P),
                  [ev |-> "failed", w |-> P.i + 1,
                   pending |-> P.pendingIncompleteEnd])
    IN  endOfTask(continueAfterError(handleWindowError(M)))

ExtractionReturns ==
    /\ pw.pc = "awaitExtraction" /\ pw.llmCall = "running"
    /\ \E citations \in Batches(MaxRaw - pw.rawCount) :
         pw' = extractionReturned(pw, citations)
    /\ UNCHANGED <<rlVars, fnVars>>

ExtractionFails ==
    /\ pw.pc = "awaitExtraction" /\ pw.llmCall = "running"
    /\ pw' = extractionFailed(pw)
    /\ UNCHANGED <<rlVars, fnVars>>

\* a timer of llmLimiter fires
LLMTimerFires ==
    /\ \E k \in 1..Len(pw.llmLimiter.timers) :
         /\ pw.llmLimiter.timers[k] = 0
         /\ LET r == processQueue([pw.llmLimiter EXCEPT !.timers = RemoveAt(@, k)])
                M == [pw EXCEPT !.llmLimiter = r.lim]
            IN  pw' = endOfTask(IF r.started # << >> THEN startLLMCall(M) ELSE M)
    /\ UNCHANGED <<rlVars, fnVars>>

\* a timer of validationLimiter fires
ValidationTimerFires ==
    /\ \E k \in 1..Len(pw.validationLimiter.timers) :
         /\ pw.validationLimiter.timers[k] = 0
         /\ LET r == processQueue([pw.validationLimiter EXCEPT
                                      !.timers = RemoveAt(@, k)])
                M == [pw EXCEPT !.validationLimiter = r.lim]
            IN  pw' = endOfTask(runValidationTasks(M, r.started))
    /\ UNCHANGED <<rlVars, fnVars>>

\* validateCitation returns for task k with one of the given verdicts:
\* lines 153-158
LookupReturns(verdicts) ==
    /\ \E k \in 1..Len(pw.pendingValidations), verdict \in verdicts :
         /\ pw.pendingValidations[k].phase = "lookup"
         /\ LET done == [pw.pendingValidations[k].citation EXCEPT
                            !.validationStatus = verdict]
                M == [addExtraction(pw, done) EXCEPT
                        !.pendingValidations[k] =
                            [citation |-> done, phase |-> "returned"],
                        !.microtasks = Append(@, k)]
            IN  pw' = endOfTask(M)
    /\ UNCHANGED <<rlVars, fnVars>>

\* the lookup finds the citation
LookupConfirms == LookupReturns({"valid"})

\* the lookup finds the citation or does not
LookupSettles == LookupReturns(FoundOrNot)

\* the lookup ends with any of the verdicts
LookupJudges == LookupReturns(Verdicts)

\* the Cancel button
Cancel ==
    /\ pw.pc \in {"awaitExtraction", "awaitValidations"}
    /\ ~pw.shouldCancel
    /\ pw' = [pw EXCEPT !.shouldCancel = TRUE]
    /\ UNCHANGED <<rlVars, fnVars>>

\* a minute passes.  A timer that is due runs before another minute has
\* passed, so no timer is due here.  Every read of requestTimestamps follows
\* a call of _cleanTimestamps, so the entries that have left the window,
\* which that call is going to drop, are dropped as the minute passes.
DueTimer(L) == \E k \in 1..Len(L.timers) : L.timers[k] = 0

elapse(L, d) == cleanTimestamps(advance(L, d))

RunTick ==
    /\ pw.pc \in {"awaitExtraction", "awaitValidations"}
    /\ ~DueTimer(pw.llmLimiter) /\ ~DueTimer(pw.validationLimiter)
    /\ \E d \in RunTicks :
         pw' = [pw EXCEPT !.llmLimiter = elapse(@, d),
                          !.validationLimiter = elapse(@, d)]
    /\ UNCHANGED <<rlVars, fnVars>>

NextPW ==
    \/ StartRun
    \/ ExtractionReturns
    \/ ExtractionFails
    \/ LookupConfirms
    \/ Cancel

SpecPW == InitPW /\ [][NextPW]_vars

NextPWTimed ==
    \/ StartRun
    \/ ExtractionReturns
    \/ ExtractionFails
    \/ LookupSettles
    \/ Cancel
    \/ LLMTimerFires
    \/ ValidationTimerFires
    \/ RunTick

SpecPWTimed == InitPWTimed /\ [][NextPWTimed]_vars

\* ------------------------ Spec: a run whose calls settle while time passes
\*
\* A run over one window, not cancelled, with the validation limiter at one
\* or two requests per minute (the extraction limiter at its default, which
\* one call does not exhaust).  Every extraction call and every lookup
\* settles, every due timer fires and time advances: a run takes finitely
\* many steps (a minute that passes with nothing in flight changes nothing),
\* so it is enough that a run which can take a step takes one.

BudgetOptions == {1, 2}

InitPWBudget ==
    /\ rl = NewRateLimiter(0, 0)
    /\ status = [t \in Tasks |-> "unscheduled"]
    /\ startLog = << >>
    /\ startAge = << >>
    /\ enqLog = << >>
    /\ NoCalls
    /\ \E maxValidationRPM \in BudgetOptions : pw = NewRun(1, 0, maxValidationRPM)

NextPWBudget ==
    \/ StartRun
    \/ ExtractionReturns
    \/ ExtractionFails
    \/ LookupConfirms
    \/ ValidationTimerFires
    \/ RunTick

FairSpecPWBudget ==
    InitPWBudget /\ [][NextPWBudget]_vars /\ WF_vars(NextPWBudget)

\* the run of SpecPW with lookups of every verdict
NextPWVerdicts ==
    \/ StartRun
    \/ ExtractionReturns
    \/ ExtractionFails
    \/ LookupJudges
    \/ Cancel

SpecPWVerdicts == InitPW /\ [][NextPWVerdicts]_vars

\* -------------------------------- Spec: two windows with fuller batches
\*
\* A run over two windows whose extraction calls return up to MaxBatch
\* citations each, so that two pending end entries of the first window meet
\* two citations of the second.

InitPWPairs ==
    /\ rl = NewRateLimiter(0, 0)
    /\ status = [t \in Tasks |-> "unscheduled"]
    /\ startLog = << >>
    /\ startAge = << >>
    /\ enqLog = << >>
    /\ NoCalls
    /\ pw = NewRun(2, 0, 0)

BatchReturns ==
    /\ pw.pc = "awaitExtraction" /\ pw.llmCall = "running"
    /\ \E citations \in Batches(MaxBatch) :
         pw' = extractionReturned(pw, citations)
    /\ UNCHANGED <<rlVars, fnVars>>

NextPWPairs ==
    \/ StartRun
    \/ BatchReturns
    \/ ExtractionFails
    \/ LookupConfirms
    \/ Cancel

SpecPWPairs == InitPWPairs /\ [][NextPWPairs]_vars

\* ------------------------------ SpecDedup: deduplicateExtractions alone
\*
\* The run is at line 298 with every validation settled; the extraction list
\* holds what the validations and the error path appended.  The extraction
\* service and the lookups decide what that is, so the list is drawn from a
\* pool of citations: with equal and different DOIs, an equal PMID, titles
\* that are similar (quant / quanta) or not (quant / quilt), and error records.

TitleQuant  == <<"Q", "u", "a", "n", "t">>
TitleQuanta == <<"q", "u", "a", "n", "t", "a">>
TitleQuilt  == <<"q", "u", "i", "l", "t">>

QuantX == [Blank EXCEPT !.doi = "10.1/x", !.title = TitleQuant,
                        !.authors = <<"Smith">>, !.year = "2020"]
QuantaY == [Blank EXCEPT !.doi = "10.2/y", !.title = TitleQuanta,
                         !.authors = <<"Smith">>, !.year = "2020"]
BareX == [Blank EXCEPT !.doi = "10.1/X"]
PmidY == [Blank EXCEPT !.doi = "10.2/y", !.pmid = "111"]
PmidQuilt == [Blank EXCEPT !.pmid = "111", !.title = TitleQuilt,
                           !.authors = <<"Smith">>, !.year = "2020"]
Quant2021 == [Blank EXCEPT !.title = TitleQuant, !.authors = <<"Smith">>,
                           !.year = "2021"]

DedupRaws == {QuantX, QuantaY, BareX, PmidY, PmidQuilt, Quant2021}

\* what a list entry is made of: a validated citation or an error record.
\* Every citation of the pool comes from window 1 with a lookup that found
\* it; the two with DOI 10.1/x also from window 2, or with a failed lookup.
DedupShapes ==
    [raw : DedupRaws, windowIndex : {1}, verdict : {"valid"}, error : {FALSE}]
      \cup [raw : {QuantX, BareX}, windowIndex : {1, 2}, verdict : Verdicts,
            error : {FALSE}]
      \cup [raw : {Blank}, windowIndex : {1}, verdict : {"invalid"}, error : {TRUE}]

ListEntry(shape, index) ==
    IF shape.error
    THEN createErrorExtraction(index, shape.windowIndex, "error")
    ELSE [processExtraction(shape.raw, index, shape.windowIndex) EXCEPT
             !.validationStatus = shape.verdict]

\* a list: the entries were appended in the order of their indices, or
\* (validations completing out of order) in the opposite order
DedupList(shapes, ascending) ==
    [k \in 1..Len(shapes) |->
        ListEntry(shapes[k], IF ascending THEN k - 1 ELSE Len(shapes) - k)]

InitDedup ==
    /\ rl = NewRateLimiter(0, 0)
    /\ status = [t \in Tasks |-> "unscheduled"]
    /\ startLog = << >>
    /\ startAge = << >>
    /\ enqLog = << >>
    /\ NoCalls
    /\ \E n \in 0..MaxList :
         \E shapes \in [1..n -> DedupShapes], ascending \in BOOLEAN :
           LET exts == DedupList(shapes, ascending)
           IN  pw = [NewRun(2, 0, 0) EXCEPT !.pc = "awaitDedup",
                                            !.i = 2,
                                            !.extractionIndex = Len(exts),
                                            !.extractions = exts,
                                            !.processingResults = exts]

\* lines 298-309: deduplicate and return
Deduplicate ==
    /\ pw.pc = "awaitDedup"
    /\ pw' = finishRun(pw)
    /\ UNCHANGED <<rlVars, fnVars>>

NextDedup == Deduplicate

SpecDedup == InitDedup /\ [][NextDedup]_vars

\* -------------------------------------- SpecWindows: createWindows alone

Texts == { t \in [length : 0..MaxText, blank : BOOLEAN] : t.length = 0 => t.blank }

\* the arguments: small ones of every kind (a window size of 0 or less, an
\* overlap below 0 or not below the window size), and the text of 4500
\* characters cut with windowSize 2000 and overlap 200
InitWindows ==
    /\ rl = NewRateLimiter(0, 0)
    /\ status = [t \in Tasks |-> "unscheduled"]
    /\ startLog = << >>
    /\ startAge = << >>
    /\ enqLog = << >>
    /\ pw = NewRun(0, 0, 0)
    /\ ra = NoRunAll /\ ui = NoUI
    /\ mg = NoMerge
    /\ sc = NoScoring
    /\ vc = NoValidation
    /\ \/ \E text \in Texts, windowSize \in -1..MaxWindowSize,
             overlap \in -1..(MaxWindowSize + 1) :
               wn = [NoWindowing EXCEPT !.text = text, !.windowSize = windowSize,
                                        !.overlap = overlap]
       \/ wn = [NoWindowing EXCEPT !.text = [length |-> 4500, blank |-> FALSE],
                                   !.windowSize = 2000, !.overlap = 200]

CreateWindows ==
    /\ ~wn.called
    /\ wn' = [wn EXCEPT !.called = TRUE,
                        !.windows = createWindows(wn.text, wn.windowSize, wn.overlap)]
    /\ UNCHANGED <<rlVars, pw, mg, sc, vc, ra, ui>>

NextWindows == CreateWindows

SpecWindows == InitWindows /\ [][NextWindows]_vars

\* ------------------------------------- Spec: createWindows step by step
\*
\* The same calls as SpecWindows; the loop makes one pass per step.  The
\* code is synchronous, so a call that can take a step takes it.

EnterCreateWindows ==
    /\ wn.pc = "idle"
    /\ wn' = enterCreateWindows(wn)
    /\ UNCHANGED <<rlVars, pw, mg, sc, vc, ra, ui>>

LoopIteration ==
    /\ wn.pc = "loop"
    /\ wn' = loopIteration(wn)
    /\ UNCHANGED <<rlVars, pw, mg, sc, vc, ra, ui>>

NextWindowLoop == EnterCreateWindows \/ LoopIteration

SpecWindowLoop == InitWindows /\ [][NextWindowLoop]_vars /\ WF_vars(NextWindowLoop)

\* ------------------------------------ SpecMerge: mergeExtractions alone

\* the fields mergeExtractions fills in when the end side has none (line 90)
simpleFields == {"doi", "pmid", "isbn", "year", "volume", "issue", "pages"}

\* the value a field has on the record cut at the window end, when present
EndValue(field) ==
    CASE field = "doi"    -> "10.1/x"
      [] field = "pmid"   -> "111"
      [] field = "isbn"   -> "978-0-1"
      [] field = "year"   -> "2020"
      [] field = "volume" -> "12"
      [] field = "issue"  -> "3"
      [] field = "pages"  -> "100-110"

\* the values a field has on the record cut at the window start, when present
StartValues(field) ==
    CASE field = "doi"    -> {"10.1/x", "10.1/X"}
      [] field = "pmid"   -> {"222"}
      [] field = "isbn"   -> {"978 0 1"}
      [] field = "year"   -> {"2021"}
      [] field = "volume" -> {"13"}
      [] field = "issue"  -> {"4"}
      [] field = "pages"  -> {"100-10"}

\* a record of the extraction service cut at one border, with the given
\* simple fields and raw text
CutRecord(position, fields, raw_text) ==
    [ f \in DOMAIN Blank |->
        IF f \in simpleFields THEN fields[f]
        ELSE IF f = "complete" THEN FALSE
        ELSE IF f = "position" THEN position
        ELSE IF f = "raw_text" THEN raw_text
        ELSE Blank[f] ]

\* mergeExtractions is called (line 233) on a pending end extraction and the
\* start extraction findMatchingPendingEnd matched with it
InitMerge ==
    /\ rl = NewRateLimiter(0, 0)
    /\ status = [t \in Tasks |-> "unscheduled"]
    /\ startLog = << >>
    /\ startAge = << >>
    /\ enqLog = << >>
    /\ pw = NewRun(0, 0, 0)
    /\ ra = NoRunAll /\ ui = NoUI
    /\ wn = NoWindowing
    /\ sc = NoScoring
    /\ vc = NoValidation
    /\ \E onEnd \in SUBSET simpleFields, onStart \in SUBSET simpleFields,
          doi \in StartValues("doi"),
          endText \in {<< >>, <<"Smith J. Intro to">>},
          startText \in {<< >>, <<"Foo. Nature 2020">>} :
         LET endFields ==
                 [f \in simpleFields |-> IF f \in onEnd THEN EndValue(f) ELSE ""]
             startFields ==
                 [f \in simpleFields |->
                     IF f \notin onStart THEN ""
                     ELSE IF f = "doi" THEN doi
                     ELSE CHOOSE v \in StartValues(f) : TRUE]
             endExtraction ==
                 processExtraction(CutRecord("end", endFields, endText), 0, 1)
             startExtraction ==
                 processExtraction(CutRecord("start", startFields, startText), 1, 2)
         IN  /\ extractionsOverlap(endExtraction, startExtraction)
             /\ mg = [NoMerge EXCEPT !.master = endExtraction,
                                     !.slave = startExtraction]

Merge ==
    /\ ~mg.called
    /\ mg' = [mg EXCEPT !.called = TRUE,
                        !.merged = mergeExtractions(mg.master, mg.slave)]
    /\ UNCHANGED <<rlVars, pw, wn, sc, vc, ra, ui>>

NextMerge == Merge

SpecMerge == InitMerge /\ [][NextMerge]_vars

\* ---------------- SpecScore: computeMatchScore and getValidationStatus alone

TitleQuantEra  == <<"Q", "u", "a", "n", "t", " ", "E", "r", "a">>
TitleQuantEraLower == <<"q", "u", "a", "n", "t", " ", "e", "r", "a">>
TitleQuantEraX == <<"q", "u", "a", "n", "t", " ", "e", "r", "a", " ", "x">>

\* the bibliographic fields of the citation that is scored
ExtractedTitles  == { << >>, TitleQuantEra }
ExtractedAuthors == { << >>, <<"Smith">>, <<"Smith", "Jones">> }
ExtractedYears   == { "", "2020" }
ExtractedJournals == { "", "Nature" }
ExtractedVolumes == { "", "12" }
ExtractedPages   == { "", "806-14" }

\* the fields of the external record it is scored against
RecordTitles  == { << >>, TitleQuantEraLower, TitleQuantEraX, TitleQuilt }
RecordAuthors == { << >>, <<"smith">>, <<"Smith", "Jones">>, <<"Smith", "Lee">> }
RecordYears   == { 0, 2020, 2021 }
RecordJournals == { "", "nature" }
RecordVolumes == { "", "12", "13" }
RecordPages   == { "", "806-814" }

\* computeMatchScore is called on a citation and a found external record
\* (lines 588, 606, 628 and 708)
InitScore ==
    /\ rl = NewRateLimiter(0, 0)
    /\ status = [t \in Tasks |-> "unscheduled"]
    /\ startLog = << >>
    /\ startAge = << >>
    /\ enqLog = << >>
    /\ pw = NewRun(0, 0, 0)
    /\ ra = NoRunAll /\ ui = NoUI
    /\ wn = NoWindowing
    /\ mg = NoMerge
    /\ vc = NoValidation
    /\ \E title \in ExtractedTitles, authors \in ExtractedAuthors,
          year \in ExtractedYears, journal \in ExtractedJournals,
          volume \in ExtractedVolumes, pages \in ExtractedPages :
       \E rTitle \in RecordTitles, rAuthors \in RecordAuthors,
          rYear \in RecordYears, rJournal \in RecordJournals,
          rVolume \in RecordVolumes, rPages \in RecordPages :
         sc = [NoScoring EXCEPT
                 !.extracted =
                     processExtraction(
                         [Blank EXCEPT !.title = title, !.authors = authors,
                                       !.year = year, !.container_title = journal,
                                       !.volume = volume, !.pages = pages], 0, 1),
                 !.validated =
                     [BlankRecord EXCEPT !.title = rTitle, !.authors = rAuthors,
                                         !.year = rYear, !.journal = rJournal,
                                         !.volume = rVolume, !.pages = rPages]]

\* the record is scored and the score gives the verdict (lines 588-593)
Score ==
    /\ ~sc.called
    /\ LET matchScore == computeMatchScore(sc.extracted, sc.validated)
           verdict == getValidationStatus(matchScore, "DOI verified via CrossRef")
       IN  sc' = [sc EXCEPT !.called = TRUE, !.matchScore = matchScore,
                            !.status = verdict.status,
                            !.message = verdict.message]
    /\ UNCHANGED <<rlVars, pw, wn, mg, vc, ra, ui>>

NextScore == Score

SpecScore == InitScore /\ [][NextScore]_vars

\* ------------------------------------ SpecValidate: validateCitation alone

\* the citation that is validated: a title, two authors and a year, with or
\* without a DOI, a PMID, a query string and a raw text
ValidatedCitations ==
    { processExtraction(
          [Blank EXCEPT !.title = TitleQuantEra, !.authors = <<"Smith", "Jones">>,
                        !.year = "2020", !.doi = doi, !.pmid = pmid,
                        !.query_bibliographic = query, !.raw_text = raw_text], 0, 1) :
        doi \in {"", "10.1/x"}, pmid \in {"", "111"}, query \in {"", "Smith 2020"},
        raw_text \in {<< >>, <<"Smith J. Intro to Foo. Nature 2020">>} }

\* the records the authorities hold: one that matches the citation, one with
\* another last author, one of another work
RecordSame ==
    [BlankRecord EXCEPT !.title = TitleQuantEraLower,
                        !.authors = <<"Smith", "Jones">>, !.year = 2020]
RecordOtherAuthor ==
    [BlankRecord EXCEPT !.title = TitleQuantEraLower,
                        !.authors = <<"Smith", "Lee">>, !.year = 2021]
RecordOtherWork ==
    [BlankRecord EXCEPT !.title = TitleQuilt, !.authors = <<"Lee">>, !.year = 2020]

Records == {RecordSame, RecordOtherAuthor, RecordOtherWork}

\* what a lookup resolves to
LookupResults == {Null} \cup { Found(r) : r \in Records }

\* what a search resolves to: up to two items
SearchResults == UNION { [1..n -> Records] : n \in 0..2 }

InitValidate ==
    /\ rl = NewRateLimiter(0, 0)
    /\ status = [t \in Tasks |-> "unscheduled"]
    /\ startLog = << >>
    /\ startAge = << >>
    /\ enqLog = << >>
    /\ pw = NewRun(0, 0, 0)
    /\ ra = NoRunAll /\ ui = NoUI
    /\ wn = NoWindowing
    /\ mg = NoMerge
    /\ sc = NoScoring
    /\ \E citation \in ValidatedCitations :
         vc = [NoValidation EXCEPT !.citation = citation]

\* validateCitation is called and runs to its first await
ValidateCitation ==
    /\ vc.pc = "idle"
    /\ vc' = tryDoi(vc)
    /\ UNCHANGED <<rlVars, pw, wn, mg, sc, ra, ui>>

\* both DOI lookups have settled; a rejected one counts as null (.catch)
DoiLookupsSettle ==
    /\ vc.pc = "doi"
    /\ \E crossRefThrows, openAlexThrows \in BOOLEAN,
          crossRefResult, openAlexResult \in LookupResults :
         vc' = doiLookupsSettled(vc, crossRefThrows, crossRefResult,
                                 openAlexThrows, openAlexResult)
    /\ UNCHANGED <<rlVars, pw, wn, mg, sc, ra, ui>>

PmidLookupSettles ==
    /\ vc.pc = "pmid"
    /\ \E thrown \in BOOLEAN, openAlexResult \in LookupResults :
         vc' = pmidSettled(vc, thrown, openAlexResult)
    /\ UNCHANGED <<rlVars, pw, wn, mg, sc, ra, ui>>

SearchSettles ==
    /\ vc.pc = "search"
    /\ \E thrown \in BOOLEAN, crossRefResults \in SearchResults :
         vc' = searchSettled(vc, thrown, crossRefResults)
    /\ UNCHANGED <<rlVars, pw, wn, mg, sc, ra, ui>>

NextValidate ==
    \/ ValidateCitation
    \/ DoiLookupsSettle
    \/ PmidLookupSettles
    \/ SearchSettles

SpecValidate == InitValidate /\ [][NextValidate]_vars

\* ----------------------------- SpecRunAll: runAll and runAllSettled

Callbacks == {"none", "returns", "throws"}

InitRunAll ==
    /\ \E c \in ConcurrentOptions, r \in RpmOptions : rl = NewRateLimiter(c, r)
    /\ status = [t \in Tasks |-> "unscheduled"]
    /\ startLog = << >>
    /\ startAge = << >>
    /\ enqLog = << >>
    /\ pw = NewRun(0, 0, 0)
    /\ wn = NoWindowing /\ mg = NoMerge /\ sc = NoScoring /\ vc = NoValidation
    /\ ui = NoUI
    /\ \E kind \in {"runAll", "runAllSettled"}, onComplete \in Callbacks,
          n \in 0..MaxTasks :
         ra = [NoRunAll EXCEPT !.kind = kind, !.onComplete = onComplete,
                               !.tasks = n]

\* runAll(tasks, onComplete) or runAllSettled(tasks, onComplete) is called
RunAll ==
    /\ ~ra.called
    /\ LET r == scheduleFrom(rl, 1, ra.tasks, [started |-> << >>, queued |-> << >>])
       IN  /\ rl' = r.lim
           /\ status' = [t \in Tasks |->
                            IF t \in Range(r.started) THEN "running"
                            ELSE IF t \in Range(r.queued) THEN "queued"
                            ELSE status[t]]
           /\ enqLog' = enqLog \o r.queued
           /\ NoteStarts(r.started)
    /\ ra' = called(ra)
    /\ UNCHANGED <<pw, wn, mg, sc, vc, ui>>

\* a running task's promise settles: the finally block runs, then the
\* handlers runAll or runAllSettled attached
TaskSettles ==
    \E t \in Tasks, outcome \in {"fulfilled", "rejected"} :
        /\ status[t] = "running"
        /\ LET r == finishTask(rl)
           IN  /\ rl' = r.lim
               /\ status' = MarkStarted([status EXCEPT ![t] = outcome], r.started)
               /\ NoteStarts(r.started)
        /\ ra' = taskSettled(ra, t, outcome = "fulfilled")
        /\ UNCHANGED <<enqLog, pw, wn, mg, sc, vc, ui>>

NextRunAll == RunAll \/ TaskSettles \/ TimerFires \/ Tick

SpecRunAll == InitRunAll /\ [][NextRunAll]_vars

\* ------------------------------------------- Spec: the page and its run
\*
\* The handlers bindEvents attaches (part_003 lines 60-130) and the steps of
\* the run that startProcessing starts.  Each handler runs to completion; the
\* run gives the page its turn at every await.

\* what the user types: a text of three characters, and window sizes and
\* overlaps (0: nothing typed) that cut it into one or three windows
PageTexts == { [length |-> 3, blank |-> FALSE] }
WindowSizeInputs == {2, 3}
OverlapInputs == {0, 1}

\* the page is loaded: the textarea is empty, the inputs hold the settings
InitUI ==
    /\ rl = NewRateLimiter(0, 0)
    /\ status = [t \in Tasks |-> "unscheduled"]
    /\ startLog = << >>
    /\ startAge = << >>
    /\ enqLog = << >>
    /\ wn = NoWindowing /\ mg = NoMerge /\ sc = NoScoring /\ vc = NoValidation
    /\ ra = NoRunAll
    /\ pw = NewRun(0, 0, 0)
    /\ \E windowSize \in WindowSizeInputs, overlap \in OverlapInputs :
         ui = [NoUI EXCEPT !.windowSize = windowSize, !.overlap = overlap]

\* handleInput (lines 187-190): the user edits the textarea, which is there
\* to edit in edit mode
TextInput ==
    /\ ui.mode = "edit"
    /\ \E text \in PageTexts \ {ui.text} :
         ui' = [ui EXCEPT !.text = text, !.debounce = TRUE]
    /\ UNCHANGED <<rlVars, pw, wn, mg, sc, vc, ra>>

\* the debounce timer fires: processText
DebounceFires ==
    /\ ui.debounce
    /\ ui' = processText([ui EXCEPT !.debounce = FALSE])
    /\ UNCHANGED <<rlVars, pw, wn, mg, sc, vc, ra>>

\* the 'input' event of the window-size input (line 90)
WindowSizeInput ==
    /\ \E windowSize \in WindowSizeInputs \ {ui.windowSize} :
         ui' = processText([ui EXCEPT !.windowSize = windowSize])
    /\ UNCHANGED <<rlVars, pw, wn, mg, sc, vc, ra>>

\* the 'input' event of the overlap input (line 91)
OverlapInput ==
    /\ \E overlap \in OverlapInputs \ {ui.overlap} :
         ui' = processText([ui EXCEPT !.overlap = overlap])
    /\ UNCHANGED <<rlVars, pw, wn, mg, sc, vc, ra>>

\* the settings are saved: settingsManager.onSettingsChange (line 71)
SettingsSaved ==
    /\ ui' = processText(ui)
    /\ UNCHANGED <<rlVars, pw, wn, mg, sc, vc, ra>>

\* the Edit button (lines 95-102), which the read-only view shows
EditClicked ==
    /\ ui.mode = "readonly"
    /\ pw' = clearExtractions(pw)
    /\ ui' = [ui EXCEPT !.mode = "edit"]
    /\ UNCHANGED <<rlVars, wn, mg, sc, vc, ra>>

\* handleClear (lines 223-234)
ClearClicked ==
    /\ pw' = clearExtractions(pw)
    /\ ui' = [ui EXCEPT !.text = [length |-> 0, blank |-> TRUE],
                        !.currentWindows = << >>,
                        !.mode = "edit"]
    /\ UNCHANGED <<rlVars, wn, mg, sc, vc, ra>>

\* startProcessing (lines 526-632) up to the first await of processAllWindows
StartProcessing ==
    /\ ~isProcessing(pw)
    /\ Len(ui.currentWindows) > 0
    /\ ui.runs < MaxRuns
    /\ LET Q == runStarted(NewRun(Len(ui.currentWindows), 0, 0))
           U == [ui EXCEPT !.mode = "readonly", !.runs = @ + 1,
                           !.atStart = ui.currentWindows,
                           !.win = Undefined, !.reads = << >>]
       IN  /\ pw' = Q
           /\ ui' = readWindow(U, pw, Q)
    /\ UNCHANGED <<rlVars, wn, mg, sc, vc, ra>>

\* the extraction call returns citations, which it does for a window;
\* the next iteration reads its window
WindowExtracted ==
    /\ pw.pc = "awaitExtraction" /\ pw.llmCall = "running"
    /\ ui.win # Undefined
    /\ \E citations \in Batches(Min(MaxPageBatch, MaxRaw - pw.rawCount)) :
         LET Q == extractionReturned(pw, citations)
         IN  /\ pw' = Q
             /\ ui' = readWindow(ui, pw, Q)
    /\ UNCHANGED <<rlVars, wn, mg, sc, vc, ra>>

\* the extraction call throws: the service fails, or there is no window
\* (part_006 line 152 reads win.startLine)
WindowFails ==
    /\ pw.pc = "awaitExtraction" /\ pw.llmCall = "running"
    /\ LET Q == extractionFailed(pw)
       IN  /\ pw' = Q
           /\ ui' = readWindow(ui, pw, Q)
    /\ UNCHANGED <<rlVars, wn, mg, sc, vc, ra>>

NextUI ==
    \/ TextInput
    \/ DebounceFires
    \/ WindowSizeInput
    \/ OverlapInput
    \/ SettingsSaved
    \/ EditClicked
    \/ ClearClicked
    \/ StartProcessing
    \/ WindowExtracted
    \/ WindowFails
    \/ LookupConfirms
    \/ Cancel

SpecUI == InitUI /\ [][NextUI]_vars

\* ------------------------------------------------ claims on the RateLimiter

Running == { t \in Tasks : status[t] = "running" }
Settled == { t \in Tasks : status[t] \in {"fulfilled", "rejected"} }

\* the starts of the last 60 s, counted on the history (not on the limiter's list)
StartsInWindow == { k \in 1..Len(startAge) : startAge[k] < WINDOW_MS }

\* the enqueued tasks in the order they started
StartedFromQueue == SelectSeq(startLog, LAMBDA t : t \in Range(enqLog))

\* C1: in every reachable state the number of tasks that have started and not
\* yet finished is at most maxConcurrent.
C1_ConcurrencyCeiling ==
    /\ Cardinality(Running) <= rl.maxConcurrent
    /\ rl.activeRequests = Cardinality(Running)

\* the ceiling is reached while a further task waits
C1_Witness ==
    /\ rl.maxConcurrent = 2
    /\ Cardinality(Running) = 2
    /\ Len(rl.queue) > 0

\* C2: at every instant the number of tasks started in the last 60 s is at most
\* requestsPerMinute.  Every start happens at the instant of some state, and the
\* count over (t - 60 s, t] is largest at an instant t where a task starts, so
\* the bound at the current instant of every reachable state is the bound at
\* every instant.
C2_RollingWindow ==
    Cardinality(StartsInWindow) <= rl.requestsPerMinute

\* the budget of two is used up, a task waits, and an earlier start has already
\* left the window
C2_Witness ==
    /\ rl.requestsPerMinute = 2
    /\ Cardinality(StartsInWindow) = 2
    /\ Len(startAge) > 2
    /\ Len(rl.queue) > 0

\* C3: every scheduled task eventually starts and its promise settles, given
\* that started tasks complete, due timers fire and time advances.
C3_EveryTaskSettles ==
    \A t \in Tasks : (status[t] \in {"queued", "running"}) ~> (t \in Settled)

\* C4: the enqueued tasks start in the order in which they were enqueued.
C4_QueueFifo ==
    /\ Len(StartedFromQueue) <= Len(enqLog)
    /\ StartedFromQueue = SubSeq(enqLog, 1, Len(StartedFromQueue))
    /\ rl.queue = SubSeq(enqLog, Len(StartedFromQueue) + 1, Len(enqLog))

\* two tasks went through the queue and started, a third still waits
C4_Witness ==
    /\ Len(StartedFromQueue) >= 2
    /\ Len(rl.queue) > 0

\* C5: a completion, fulfilled or rejected, decrements the in-flight count and
\* re-evaluates the queue in the same step: a queued task that the rate budget
\* admits starts at that completion.
C5_CompletionReevaluates ==
    [][ \A t \in Tasks :
          (status[t] = "running" /\ status'[t] \in {"fulfilled", "rejected"}) =>
             LET newly == { u \in Tasks : status[u] = "queued" /\ status'[u] = "running" }
             IN  /\ rl'.activeRequests = rl.activeRequests - 1 + Cardinality(newly)
                 /\ (rl.queue # << >> /\ Cardinality(StartsInWindow) < rl.requestsPerMinute)
                       => Head(rl.queue) \in newly
       ]_vars

\* without a per-minute limit no timer is ever armed: a task that went through
\* the queue and started was started by a completion, here after a rejection
C5_Witness ==
    /\ rl.requestsPerMinute = Infinity
    /\ rl.timers = << >>
    /\ \E t \in Tasks : status[t] = "rejected"
    /\ Len(StartedFromQueue) > 0

\* ------------------------------------------- claims on processAllWindows
\*
\* pw.log is the history of the run: the extraction calls that started
\* ("call"), returned ("returned") or failed ("failed"), the disposition of
\* every citation ("merged", "held", "final") and every call of
\* startValidation ("route"), in the order the code made them.

Events(kind) == { p \in 1..Len(pw.log) : pw.log[p].ev = kind }

CallsEnded == Events("returned") \cup Events("failed")

Dispositions(w) ==
    { p \in 1..Len(pw.log) :
        pw.log[p].ev \in {"merged", "held", "final"} /\ pw.log[p].w = w }

RoutesOf(id) == { p \in Events("route") : pw.log[p].citation.id = id }

Ids(s) == { s[k].id : k \in 1..Len(s) }

MergedIds == { pw.log[p].id : p \in Events("merged") }

\* C6: the extraction calls start in strictly increasing window order, at
\* most once per window; no call starts while another is in flight; and the
\* call of window i+1 starts only after the call of window i has ended and
\* every citation it returned has its disposition (merged, held, or final
\* with the superseding done), the merged and final ones routed to validation.
C6_SequentialWindows ==
    /\ \A p, q \in Events("call") : p < q => pw.log[p].w < pw.log[q].w
    /\ \A p \in Events("call") :
         Cardinality({ q \in CallsEnded : q < p })
           = Cardinality({ q \in Events("call") : q < p })
    /\ Cardinality(Events("call")) - Cardinality(CallsEnded) \in {0, 1}
    /\ pw.llmLimiter.activeRequests
         = Cardinality(Events("call")) - Cardinality(CallsEnded)
    /\ \A p \in Events("call") :
         pw.log[p].w > 1 =>
           \E q \in CallsEnded :
             /\ q < p
             /\ pw.log[q].w = pw.log[p].w - 1
             /\ pw.log[q].ev = "returned" =>
                  LET given == { d \in Dispositions(pw.log[q].w) : q < d /\ d < p }
                  IN  /\ Cardinality(given) = pw.log[q].n
                      /\ \A d \in given :
                           pw.log[d].ev \in {"merged", "final"} =>
                             /\ d + 1 < p
                             /\ pw.log[d + 1].ev = "route"

\* the call of window 3 has started after window 2 returned two citations
C6_Witness ==
    \E p \in Events("call"), q \in Events("returned") :
        /\ pw.log[p].w = 3
        /\ pw.log[q].w = 2
        /\ pw.log[q].n >= 2

\* C7: a pending end entry leaves the pending list in the step that merges
\* it with a start extraction; it is merged at most once, its raw_text is the
\* end text, a newline and the start text (one concatenation), and the merged
\* record is routed to validation exactly once, complete.
C7_MergedOnce ==
    \A p \in Events("merged") :
        LET e == pw.log[p]
        IN  /\ \A q \in Events("merged") : pw.log[q].id = e.id => q = p
            /\ e.id \notin Ids(e.pendingAfter)
            /\ e.id \notin Ids(pw.pendingIncompleteEnd)
            /\ RoutesOf(e.id) = {p + 1}
            /\ pw.log[p + 1].citation.complete = TRUE
            /\ pw.log[p + 1].citation.position = ""
            /\ pw.log[p + 1].citation.raw_text
                 = e.endText \o <<"\n">> \o e.startText

\* a merge out of a pending list of two, the merged record validated and listed
C7_Witness ==
    \E p \in Events("merged") :
        /\ Len(pw.log[p].pendingAfter) >= 1
        /\ \E k \in 1..Len(pw.extractions) :
             /\ pw.extractions[k].id = pw.log[p].id
             /\ pw.extractions[k].complete = TRUE
             /\ pw.extractions[k].validationStatus = "valid"

\* the pending entries a complete citation matches when it is handled
MatchesOf(e) ==
    { k \in 1..Len(e.pendingBefore) :
        completeSupersedes(e.pendingBefore[k], e.citation) }

CompleteFinals == { p \in Events("final") : pw.log[p].citation.complete # FALSE }

\* a pending entry that was discarded: not merged, not routed, not listed
Discarded(id) ==
    /\ id \notin MergedIds
    /\ RoutesOf(id) = {}
    /\ id \notin Ids(pw.extractions)
    /\ id \notin Ids(pw.pendingIncompleteEnd)

SupersededIds ==
    UNION { Ids(pw.log[p].pendingBefore) \ Ids(pw.log[p].pendingAfter) :
              p \in Events("final") }

\* C9: an end entry held in window i is not routed before the batch of
\* window i+1 is handled; once it is handled (or the call of window i+1 has
\* failed), an entry that was neither merged nor superseded has been routed
\* to validation exactly once, after every citation of that batch, with its
\* fields unchanged and still marked incomplete.
C9_OrphanRoutedOnce ==
    \A p \in Events("held") :
        LET c    == pw.log[p].citation
            next == { q \in CallsEnded : pw.log[q].w = pw.log[p].w + 1 }
        IN  /\ next = {} => /\ RoutesOf(c.id) = {}
                            /\ c.id \in Ids(pw.pendingIncompleteEnd)
            /\ (next # {} /\ c.id \notin MergedIds /\ c.id \notin SupersededIds) =>
                 /\ Cardinality(RoutesOf(c.id)) = 1
                 /\ \A r \in RoutesOf(c.id) :
                      /\ pw.log[r].citation = c
                      /\ pw.log[r].citation.complete = FALSE
                      /\ \A q \in next : q < r
                      /\ \A d \in Dispositions(pw.log[p].w + 1) : d < r

\* an end entry held in one window, left alone by the citations of the next,
\* then validated as it was and listed as incomplete
C9_Witness ==
    \E p \in Events("held"), q \in Events("returned") :
        /\ pw.log[q].w = pw.log[p].w + 1
        /\ pw.log[q].n >= 1
        /\ ~pw.log[q].cancelled
        /\ pw.log[p].citation.id \notin MergedIds \cup SupersededIds
        /\ \E k \in 1..Len(pw.extractions) :
             /\ pw.extractions[k].id = pw.log[p].citation.id
             /\ pw.extractions[k].complete = FALSE
             /\ pw.extractions[k].validationStatus = "incomplete"
             /\ pw.extractions[k].raw_text = pw.log[p].citation.raw_text

\* the step in which the extraction call of window pw.i + 1 fails
FailStep ==
    /\ Len(pw'.log) > Len(pw.log)
    /\ pw'.log[Len(pw.log) + 1].ev = "failed"

ErrorRecords(exts, k) ==
    { j \in 1..Len(exts) : exts[j].error /\ exts[j].windowIndex = k }

\* C10: in the step in which the call of window k fails, one error-marked
\* extraction (error, validationStatus invalid, windowIndex k) is appended to
\* the extraction list, every entry pending from window k-1 is routed to
\* validation once and unmerged, the pending list becomes empty, and the run
\* goes on: unless k was the last window or cancellation was requested, the
\* call of window k+1 is scheduled.
C10_FailureDoesNotAbort ==
    [][FailStep =>
        LET k   == pw.i + 1
            old == Len(pw.log)
            newRoutes == { r \in (old + 1)..Len(pw'.log) : pw'.log[r].ev = "route" }
        IN  /\ pw'.log[old + 1].w = k
            /\ ErrorRecords(pw.extractions, k) = {}
            /\ Cardinality(ErrorRecords(pw'.extractions, k)) = 1
            /\ Cardinality({ j \in 1..Len(pw'.extractions) : pw'.extractions[j].error })
                 = Cardinality({ j \in 1..Len(pw.extractions) : pw.extractions[j].error }) + 1
            /\ \A j \in ErrorRecords(pw'.extractions, k) :
                 pw'.extractions[j].validationStatus = "invalid"
            /\ Cardinality(newRoutes) = Len(pw.pendingIncompleteEnd)
            /\ \A j \in 1..Len(pw.pendingIncompleteEnd) :
                 /\ RoutesOf(pw.pendingIncompleteEnd[j].id) = {}
                 /\ pw.pendingIncompleteEnd[j].complete = FALSE
                 /\ Cardinality({ r \in newRoutes :
                        pw'.log[r].citation = pw.pendingIncompleteEnd[j] }) = 1
            /\ pw'.pendingIncompleteEnd = << >>
            /\ (k < pw.totalWindows /\ ~pw.shouldCancel) =>
                 /\ pw'.pc = "awaitExtraction"
                 /\ pw'.i = k
                 /\ pw'.llmCall \in {"queued", "running"}
                 /\ pw'.llmCall = "running" =>
                      /\ pw'.log[Len(pw'.log)].ev = "call"
                      /\ pw'.log[Len(pw'.log)].w = k + 1
    ]_vars

\* the call of window 2 failed with an entry pending from window 1: the entry
\* was routed, the error record is listed, and the call of window 3 started
C10_Witness ==
    \E p \in Events("failed"), q \in Events("call") :
        /\ pw.log[p].w = 2
        /\ pw.log[p].pending # << >>
        /\ pw.log[q].w = 3
        /\ \A j \in 1..Len(pw.log[p].pending) :
             \E r \in RoutesOf(pw.log[p].pending[j].id) : p < r /\ r < q
        /\ ErrorRecords(pw.extractions, 2) # {}

\* the history events that gave a citation its identity
Identified == Events("held") \cup Events("final")

ErrorIndices ==
    { pw.extractions[j].index : j \in { k \in 1..Len(pw.extractions) : pw.extractions[k].error } }

\* the index values the run has given out
IssuedIndices == { pw.log[p].citation.index : p \in Identified } \cup ErrorIndices

\* the identities in a state of the run: see C11
C11_ListedIdentity ==
    /\ \A j, k \in 1..Len(pw.extractions) :
         j # k => /\ pw.extractions[j].id # pw.extractions[k].id
                  /\ pw.extractions[j].index # pw.extractions[k].index
    /\ \A j \in 1..Len(pw.extractions) :
         pw.extractions[j].id = ExtractionId(pw.extractions[j].index)
    /\ \A p, q \in Identified :
         p < q => pw.log[p].citation.index < pw.log[q].citation.index
    /\ \A p \in Identified : pw.log[p].citation.index \notin ErrorIndices
    /\ IssuedIndices = 0..(pw.extractionIndex - 1)
    /\ \A p \in Events("merged") :
         \E h \in Events("held") :
           /\ h < p
           /\ pw.log[h].citation.id = pw.log[p].id
           /\ pw.log[p + 1].citation.id = pw.log[h].citation.id
           /\ pw.log[p + 1].citation.index = pw.log[h].citation.index

\* C11: the extractions in the list have pairwise distinct ids and indices,
\* each id being the one made of its index; the index values given out (to
\* held entries, whether discarded later or not, to final citations and to
\* error records) are all different and are exactly 0 .. extractionIndex - 1,
\* so a merge consumed none; a merged record carries the id and index of the
\* held end entry; and extractionIndex never decreases.
C11_UniqueIdentity ==
    /\ []C11_ListedIdentity
    /\ [][pw'.extractionIndex >= pw.extractionIndex]_vars

\* a finished run that merged a held entry and lists the merged record
\* together with the citation that got the next index
C11_Witness ==
    /\ pw.pc = "done"
    /\ \E p \in Events("merged"), j, k \in 1..Len(pw.extractions) :
         /\ pw.extractions[j].id = pw.log[p].id
         /\ pw.extractions[k].index = pw.extractions[j].index + 1

\* deduplication has started (it runs to its end, and the run returns, in the
\* step in which it starts)
DedupStarted == Events("dedup") # {}

\* C12: deduplication starts, and processAllWindows returns, only when
\* every validation the run dispatched has settled; from then on the run
\* appends nothing to the extraction list.
C12_DedupAfterValidations ==
    /\ [](/\ DedupStarted <=> pw.pc = "done"
          /\ DedupStarted =>
               /\ Len(pw.pendingValidations) = Cardinality(Events("route"))
               /\ AllSettled(pw)
               /\ pw.microtasks = << >>
               /\ pw.log[Len(pw.log)].ev = "dedup"
               /\ pw.result.totalExtractions = Len(pw.extractions))
    /\ [][DedupStarted => pw'.extractions = pw.extractions]_vars

\* a run that returned after waiting for a lookup dispatched in its last window
C12_Witness ==
    /\ pw.pc = "done"
    /\ pw.totalWindows >= 2
    /\ \E j \in 1..Len(pw.extractions) :
         /\ pw.extractions[j].windowIndex = pw.totalWindows
         /\ pw.extractions[j].validationStatus \in Verdicts

\* C13: once the cancel flag is set, no extraction, validated citation or
\* error record, is appended to the extraction list.
C13_NothingAppendedAfterCancel ==
    [][pw.shouldCancel => Ids(pw'.extractions) \subseteq Ids(pw.extractions)]_vars

\* the validation tasks that start executing in a step
StartingTasks ==
    { k \in 1..Len(pw'.pendingValidations) :
        /\ k > Len(pw.pendingValidations) \/ pw.pendingValidations[k].phase = "queued"
        /\ pw'.pendingValidations[k].phase # "queued" }

\* with the flag set, no extraction call starts
NoCallAfterCancel ==
    [][pw.shouldCancel =>
         \A p \in (Len(pw.log) + 1)..Len(pw'.log) : pw'.log[p].ev # "call"]_vars

\* with the flag set, a validation task that starts makes no lookup and
\* appends nothing
NoLookupAfterCancel ==
    [][pw.shouldCancel =>
         \A k \in StartingTasks :
           /\ pw'.pendingValidations[k].phase \in {"returned", "settled"}
           /\ \/ pw'.pendingValidations[k].citation.id \notin Ids(pw'.extractions)
              \/ pw'.pendingValidations[k].citation.id \in Ids(pw.extractions)]_vars

\* something is left that resumes the run: an extraction call in flight or
\* waiting for its timer, a lookup in flight, or a validation waiting for a
\* timer of its limiter
CanResume ==
    \/ pw.llmCall = "running"
    \/ pw.llmCall = "queued" /\ pw.llmLimiter.timers # << >>
    \/ \E k \in 1..Len(pw.pendingValidations) :
         pw.pendingValidations[k].phase = "lookup"
    \/ pw.validationLimiter.timers # << >>

\* a cancelled run returns, with cancelled = true: until it has, something
\* is left that resumes it
CancelledRunReturns ==
    [](pw.shouldCancel =>
         /\ pw.pc \in {"awaitExtraction", "awaitValidations"} => CanResume
         /\ pw.pc = "done" => pw.result.cancelled)

\* C14: once the cancel flag is set no extraction call starts, a validation
\* task that starts executing makes no lookup and appends nothing, and the
\* run returns with cancelled = true.
C14_CancelStopsWork ==
    /\ NoCallAfterCancel
    /\ NoLookupAfterCancel
    /\ CancelledRunReturns

\* ------------------------------------------------- claims on deduplication

\* the extraction list as deduplication found it, once it has run
BeforeDedup == pw.log[Len(pw.log)].before

\* positions of the non-error extractions of a list
Citations(exts) == { j \in 1..Len(exts) : ~exts[j].error }

\* C16: of two strict duplicates with equal quality scores, deduplication
\* keeps the one with the smaller index and removes the other, whatever the
\* order in which their validations completed (the order of the list).
C16_TieKeepsSmallerIndex ==
    DedupStarted =>
        \A j, k \in Citations(BeforeDedup) :
            LET a == BeforeDedup[j]
                b == BeforeDedup[k]
            IN  ( /\ Cardinality(Citations(BeforeDedup)) = 2
                  /\ a.index < b.index
                  /\ extractionsAreDuplicates(a, b)
                  /\ scoreExtraction(a) = scoreExtraction(b) )
                => /\ a.id \in Ids(pw.extractions)
                   /\ b.id \notin Ids(pw.extractions)

\* the comparisons deduplication made, in order
Comparisons == dedupLoops(BeforeDedup).comparisons

DifferentDois(a, b) ==
    a.doi # "" /\ b.doi # "" /\ toLowerCase(a.doi) # toLowerCase(b.doi)

\* C15: deduplication never treats two citations with different DOIs as
\* duplicates: no comparison of two such citations marks one of them for
\* removal.
C15_DifferentDoisKept ==
    DedupStarted =>
        \A n \in 1..Len(Comparisons) :
            DifferentDois(BeforeDedup[Comparisons[n].i], BeforeDedup[Comparisons[n].j])
              => Comparisons[n].removed = << >>

\* C17: deduplication compares non-error extractions that are not marked
\* for removal; when the two are strict duplicates with different scores the
\* comparison marks the lower-scoring one and not the other, and the marked
\* one is gone from the list at the end; every error extraction stays.
C17_LowerScoreRemoved ==
    DedupStarted =>
        /\ \A n \in 1..Len(Comparisons) :
             LET c == Comparisons[n]
                 a == BeforeDedup[c.i]
                 b == BeforeDedup[c.j]
                 lower == IF scoreExtraction(a) < scoreExtraction(b) THEN a ELSE b
             IN  /\ c.i < c.j
                 /\ ~a.error /\ ~b.error
                 /\ \A m \in 1..(n - 1) :
                      Comparisons[m].removed \notin {a.id, b.id}
                 /\ (c.removed # << >>) <=> extractionsAreDuplicates(a, b)
                 /\ ( /\ extractionsAreDuplicates(a, b)
                      /\ scoreExtraction(a) # scoreExtraction(b) )
                    => /\ c.removed = lower.id
                       /\ lower.id \notin Ids(pw.extractions)
        /\ \A j \in 1..Len(BeforeDedup) :
             BeforeDedup[j].error => BeforeDedup[j] \in Range(pw.extractions)
        /\ Ids(pw.extractions)
             = Ids(BeforeDedup) \ { Comparisons[n].removed : n \in 1..Len(Comparisons) }

\* a list with an error record in which the first of two duplicates had the
\* lower score and was removed
C17_Witness ==
    /\ DedupStarted
    /\ \E n \in 1..Len(Comparisons) :
         /\ Comparisons[n].removed = BeforeDedup[Comparisons[n].i].id
         /\ scoreExtraction(BeforeDedup[Comparisons[n].i])
              < scoreExtraction(BeforeDedup[Comparisons[n].j])
    /\ \E j \in 1..Len(pw.extractions) : pw.extractions[j].error

\* --------------------------------------------------- claims on createWindows

\* createWindows was called on a text that is not blank, with windowSize >= 1
\* and 0 <= overlap < windowSize
ValidCall ==
    /\ wn.called
    /\ wn.text.length > 0 /\ ~wn.text.blank
    /\ wn.windowSize >= 1
    /\ 0 <= wn.overlap /\ wn.overlap < wn.windowSize

LastWindow == wn.windows[Len(wn.windows)]

Ranges == [k \in 1..Len(wn.windows) |-> <<wn.windows[k].start, wn.windows[k].end>>]

\* C18: for a text that is not blank, windowSize >= 1 and 0 <= overlap <
\* windowSize, the windows cover [0, text.length) without a gap: the first
\* starts at 0, each later one starts no later than the end of the one
\* before, the last ends at text.length, and none is longer than windowSize.
C18_WindowsCover ==
    ValidCall =>
        /\ Len(wn.windows) >= 1
        /\ wn.windows[1].start = 0
        /\ \A k \in 2..Len(wn.windows) : wn.windows[k].start <= wn.windows[k - 1].end
        /\ LastWindow.end = wn.text.length
        /\ \A k \in 1..Len(wn.windows) :
             /\ wn.windows[k].start < wn.windows[k].end
             /\ wn.windows[k].end - wn.windows[k].start <= wn.windowSize
             /\ wn.windows[k].length = wn.windows[k].end - wn.windows[k].start
             /\ wn.windows[k].index = k - 1
        /\ \A x \in 0..(wn.text.length - 1) :
             \E k \in 1..Len(wn.windows) :
               wn.windows[k].start <= x /\ x < wn.windows[k].end

\* a text cut into three or more overlapping windows
C18_Witness ==
    /\ ValidCall
    /\ Len(wn.windows) >= 3
    /\ wn.overlap >= 1
    /\ wn.windows[2].start < wn.windows[1].end

\* the call of the example: 4500 characters, windowSize 2000, overlap 200
ExampleCall ==
    /\ wn.called
    /\ wn.text = [length |-> 4500, blank |-> FALSE]
    /\ wn.windowSize = 2000
    /\ wn.overlap = 200

\* C19 as stated: the example call returns the windows [0,2000),
\* [1800,3800) and [2700,4500).
C19_ExampleAsStated ==
    ExampleCall => Ranges = << <<0, 2000>>, <<1800, 3800>>, <<2700, 4500>> >>

\* C19: the example call returns exactly three windows, [0,2000),
\* [1800,3800) and [2500,4500): the final window is shifted back to end at
\* 4500 with the full window size.
C19_Example ==
    ExampleCall => Ranges = << <<0, 2000>>, <<1800, 3800>>, <<2500, 4500>> >>

C19_Witness == ExampleCall /\ Len(wn.windows) = 3

\* the last window is the final one added after the loop: it starts less
\* than a step after the window before it
BackShifted ==
    /\ Len(wn.windows) >= 2
    /\ LastWindow.start - wn.windows[Len(wn.windows) - 1].start
         < wn.windowSize - wn.overlap

Finished(M, k) ==
    /\ k <= Len(M.pendingValidations)
    /\ M.pendingValidations[k].phase \in {"returned", "settled"}

\* the extraction list the validation tasks appended to
Appended == IF pw.pc = "done" THEN BeforeDedup ELSE pw.extractions

C21_RoutedStatus ==
    ~pw.shouldCancel =>
        \A k \in 1..Len(pw.pendingValidations) :
            LET task == pw.pendingValidations[k]
            IN  /\ task.citation.complete = FALSE => task.phase # "lookup"
                /\ Finished(pw, k) =>
                      /\ \E j \in 1..Len(Appended) : Appended[j] = task.citation
                      /\ IF task.citation.complete = FALSE
                         THEN task.citation.validationStatus = "incomplete"
                         ELSE task.citation.validationStatus \in Verdicts

C21_CompleteLookedUp ==
    \A k \in 1..Len(pw'.pendingValidations) :
        (/\ ~pw'.shouldCancel
         /\ pw'.pendingValidations[k].citation.complete # FALSE
         /\ Finished(pw', k) /\ ~Finished(pw, k))
        => /\ k <= Len(pw.pendingValidations)
           /\ pw.pendingValidations[k].phase = "lookup"

\* C21: in a run that is not cancelled, a citation routed to validation while
\* incomplete is never looked up and is appended with validationStatus
\* incomplete; a citation routed as complete (a merged record included) is
\* appended only when its lookup has returned, with one of the verdicts valid,
\* suspicious, mismatch, invalid.
C21_ValidationByCompleteness ==
    []C21_RoutedStatus /\ [][C21_CompleteLookedUp]_vars

\* a run that was not cancelled has ended; an incomplete citation was appended
\* as incomplete, and a merged record came back from its lookup as suspicious
C21_Witness ==
    /\ pw.pc = "done" /\ ~pw.shouldCancel
    /\ \E k, m \in 1..Len(pw.pendingValidations) :
         /\ Finished(pw, k) /\ Finished(pw, m)
         /\ pw.pendingValidations[k].citation.complete = FALSE
         /\ pw.pendingValidations[k].citation.validationStatus = "incomplete"
         /\ pw.pendingValidations[m].citation.id \in MergedIds
         /\ pw.pendingValidations[m].citation.validationStatus = "suspicious"

\* ------------------------------ merging

\* the two records of the example, as processExtraction hands them on
ExampleEnd ==
    processExtraction([Blank EXCEPT !.complete = FALSE, !.position = "end",
                                    !.doi = "10.1/x",
                                    !.raw_text = <<"Smith J. Intro to">>], 0, 1)
ExampleStart ==
    processExtraction([Blank EXCEPT !.complete = FALSE, !.position = "start",
                                    !.doi = "10.1/x",
                                    !.raw_text = <<"Foo. Nature 2020">>], 1, 2)

ExampleMerged == mg.called /\ mg.master = ExampleEnd /\ mg.slave = ExampleStart

\* C22: merging the pending end extraction {complete false, position end,
\* doi 10.1/x, raw_text 'Smith J. Intro to'} with the start extraction
\* {complete false, position start, doi 10.1/x, raw_text 'Foo. Nature 2020'}
\* yields one record with complete = true, a raw_text of the end text, a
\* newline and the start text, and neither a position nor a reason.
C22_MergeExample ==
    ExampleMerged =>
        /\ mg.merged.complete = TRUE
        /\ mg.merged.raw_text = <<"Smith J. Intro to", "\n", "Foo. Nature 2020">>
        /\ mg.merged.position = ""
        /\ mg.merged.reason = ""
        /\ mg.merged.id = ExampleEnd.id

\* the two records of the example matched and were merged
C22_Witness == ExampleMerged /\ extractionsOverlap(mg.master, mg.slave)

\* the record cut at the window end, and the one cut at the window start
EndSide == IF mg.master.position = "end" THEN mg.master ELSE mg.slave
StartSide == IF mg.master.position = "end" THEN mg.slave ELSE mg.master

\* C23: a merge leaves every doi, pmid, isbn, year, volume, issue and pages
\* value that is present on the end-side record as it is; such a field takes
\* the start side's value only when the end side has none.
C23_SimpleFieldsKept ==
    mg.called =>
        \A f \in simpleFields :
            mg.merged[f] = IF EndSide[f] # "" THEN EndSide[f] ELSE StartSide[f]

\* a merge in which both sides carry a year and a volume, with different
\* values, and only the start side carries the pages
C23_Witness ==
    /\ mg.called
    /\ EndSide.year = "2020" /\ StartSide.year = "2021" /\ mg.merged.year = "2020"
    /\ EndSide.volume # "" /\ StartSide.volume # ""
    /\ EndSide.pages = "" /\ mg.merged.pages = "100-10"

\* ------------------------------ scoring

\* C25: for every overall score s computed against a found external record,
\* the verdict is valid exactly when s >= 0.90, suspicious exactly when
\* 0.70 <= s < 0.90, and mismatch exactly when s < 0.70.
C25_VerdictThresholds ==
    sc.called =>
        LET s == sc.matchScore.overall
        IN  /\ s.n >= 0 /\ s.n <= s.d
            /\ sc.status = "valid" <=> 100 * s.n >= 90 * s.d
            /\ sc.status = "suspicious" <=>
                   (100 * s.n >= 70 * s.d /\ 100 * s.n < 90 * s.d)
            /\ sc.status = "mismatch" <=> 100 * s.n < 70 * s.d

\* a score of exactly 0.90 (title 1, authors 0.7, year 1) is valid
C25_Witness ==
    /\ sc.called
    /\ 100 * sc.matchScore.overall.n = 90 * sc.matchScore.overall.d
    /\ sc.matchScore.fieldsCompared = 3
    /\ sc.status = "valid"

\* a score of exactly 0.70 (the authors alone, the last one different) is
\* suspicious
C25_WitnessSuspicious ==
    /\ sc.called
    /\ 100 * sc.matchScore.overall.n = 70 * sc.matchScore.overall.d
    /\ sc.status = "suspicious"

\* the fields that are non-empty on both sides of the scored pair
Compared(extracted, validated) ==
    { f \in Range(ScoredFields) :
        CASE f = "title"   -> extracted.title # << >> /\ validated.title # << >>
          [] f = "authors" -> extracted.authors # << >> /\ validated.authors # << >>
          [] f = "year"    -> extracted.year # "" /\ validated.year # 0
          [] f = "journal" -> extracted.container_title # "" /\ validated.journal # ""
          [] OTHER         -> extracted[f] # "" /\ validated[f] # "" }

RECURSIVE SumOver(_, _)
SumOver(fields, term) ==
    IF fields = {} THEN Frac(0, 1)
    ELSE LET f == CHOOSE g \in fields : TRUE
         IN  fracAdd(term[f], SumOver(fields \ {f}, term))

\* the weighted sum of the given field scores over the sum of their weights
WeightedMean(fieldScores) ==
    LET fields == DOMAIN fieldScores
        weighted == SumOver(fields, [f \in fields |->
                                        fracScale(fieldScores[f], FIELD_WEIGHTS[f])])
        weights == SumOver(fields, [f \in fields |-> Frac(FIELD_WEIGHTS[f], 1)])
    IN  IF fields = {} THEN Frac(0, 1) ELSE fracOver(weighted, weights.n)

\* the pair with the field made present on both sides, with equal values
ExtractedWith(f) ==
    CASE f = "title"   -> [sc.extracted EXCEPT !.title = TitleQuantEra]
      [] f = "authors" -> [sc.extracted EXCEPT !.authors = <<"Smith">>]
      [] f = "year"    -> [sc.extracted EXCEPT !.year = "2020"]
      [] f = "journal" -> [sc.extracted EXCEPT !.container_title = "Nature"]
      [] f = "volume"  -> [sc.extracted EXCEPT !.volume = "12"]
      [] f = "pages"   -> [sc.extracted EXCEPT !.pages = "806-14"]
ValidatedWith(f) ==
    CASE f = "title"   -> [sc.validated EXCEPT !.title = TitleQuantEraLower]
      [] f = "authors" -> [sc.validated EXCEPT !.authors = <<"smith">>]
      [] f = "year"    -> [sc.validated EXCEPT !.year = 2020]
      [] f = "journal" -> [sc.validated EXCEPT !.journal = "nature"]
      [] f = "volume"  -> [sc.validated EXCEPT !.volume = "12"]
      [] f = "pages"   -> [sc.validated EXCEPT !.pages = "806-814"]

\* C26: the overall score is the weighted sum of the scores of the compared
\* fields (those non-empty on both sides) divided by the sum of the weights
\* of those fields only; and for every scored field that is absent on one
\* side, making it present on both sides with similarity 1 gives an overall
\* score that is not lower.
C26_WeightedMeanOfCompared ==
    sc.called =>
        /\ DOMAIN sc.matchScore.fields = Compared(sc.extracted, sc.validated)
        /\ sc.matchScore.overall = WeightedMean(sc.matchScore.fields)
        /\ \A f \in Range(ScoredFields) \ Compared(sc.extracted, sc.validated) :
             LET filled == computeMatchScore(ExtractedWith(f), ValidatedWith(f))
             IN  /\ f \in DOMAIN filled.fields
                 /\ filled.fields[f] = Frac(1, 1)
                 /\ fracGeq(filled.overall, sc.matchScore.overall)

\* a pair scored on title, authors and year alone, below 1: the journal, the
\* volume and the pages are absent on one side, and filling in the journal
\* raises the score
C26_Witness ==
    /\ sc.called
    /\ Compared(sc.extracted, sc.validated) = {"title", "authors", "year"}
    /\ sc.matchScore.overall.n < sc.matchScore.overall.d
    /\ sc.matchScore.overall.n > 0
    /\ ~fracGeq(sc.matchScore.overall,
                computeMatchScore(ExtractedWith("journal"),
                                  ValidatedWith("journal")).overall)

\* ------------------------------ validateCitation

\* the step a request belongs to, and the place of a step in the order
StepOf(call) ==
    CASE call = "crossref.lookupDOI"  -> "doi"
      [] call = "openalex.lookupDOI"  -> "doi"
      [] call = "openalex.lookupPMID" -> "pmid"
      [] call = "crossref.searchBibliographic" -> "search"
StepNumber(step) ==
    CASE step = "doi" -> 1 [] step = "pmid" -> 2 [] step = "search" -> 3

\* the steps that gave an external record
Yielding == { k \in 1..Len(vc.yielded) : vc.yielded[k].found }

\* C24: validateCitation makes its requests in the order DOI lookup, PMID
\* lookup, bibliographic search; once a step has returned a record no request
\* of a later step is made and the citation is judged; when both authorities
\* return a record for the DOI, the first authority's record is the one
\* scored; and when no step gives a record the citation ends with
\* validationStatus invalid and the message 'Could not verify citation'.
C24_StepsInOrder ==
    /\ \A i, j \in 1..Len(vc.calls) :
         i < j => StepNumber(StepOf(vc.calls[i])) <= StepNumber(StepOf(vc.calls[j]))
    /\ \A k \in Yielding :
         /\ vc.pc = "done"
         /\ \A i \in 1..Len(vc.calls) :
              StepNumber(StepOf(vc.calls[i])) <= StepNumber(vc.yielded[k].step)
         /\ vc.validation.scored
         /\ vc.citation.validationStatus \in {"valid", "suspicious", "mismatch"}
    /\ \A k \in Yielding :
         (/\ vc.yielded[k].step = "doi"
          /\ vc.yielded[k].results[1].found /\ vc.yielded[k].results[2].found)
         => /\ vc.validation.matchScore =
                   computeMatchScore(vc.citation, vc.yielded[k].results[1].record)
            /\ vc.validation.crossref = vc.yielded[k].results[1]
    /\ (vc.pc = "done" /\ Yielding = {}) =>
         /\ vc.citation.validationStatus = "invalid"
         /\ vc.citation.validationMessage = <<"Could not verify citation">>
         /\ ~vc.validation.scored

\* both authorities returned a record for the DOI, the first one a record of
\* another work and the second one the matching record; the citation has a
\* PMID too, which was not looked up
C24_Witness ==
    /\ vc.pc = "done"
    /\ vc.citation.pmid # ""
    /\ vc.calls = <<"crossref.lookupDOI", "openalex.lookupDOI">>
    /\ Len(vc.yielded) = 1
    /\ vc.yielded[1].results = <<Found(RecordOtherWork), Found(RecordSame)>>
    /\ vc.citation.validationStatus = "mismatch"

\* every step was tried and none gave a record
C24_WitnessNoneFound ==
    /\ vc.pc = "done"
    /\ Len(vc.calls) = 4
    /\ Yielding = {}
    /\ vc.citation.validationStatus = "invalid"

\* ------------------------------ runAll and runAllSettled

\* what the array holds for task i when it holds that task's outcome
OutcomeOf(i) ==
    IF ra.kind = "runAll" THEN ValueOf(i)
    ELSE IF status[i] = "fulfilled"
    THEN [status |-> "fulfilled", value |-> ValueOf(i)]
    ELSE [status |-> "rejected", reason |-> ErrorOf(i)]

\* every task that has completed is recorded at its own index
RecordedAtOwnIndex ==
    \A i \in Range(ra.completed) :
        (ra.kind = "runAllSettled" \/ status[i] = "fulfilled")
        => ra.results[i] = OutcomeOf(i)

\* C27: the array runAll and runAllSettled return holds at position i the
\* outcome of tasks[i], whatever the order in which the tasks complete;
\* runAllSettled records a rejecting task as {status: 'rejected', reason} at
\* its own index, records every other task too, and does not itself reject.
C27_ResultsInTaskOrder ==
    /\ RecordedAtOwnIndex
    /\ ra.outcome = "returned" =>
         \A i \in 1..ra.tasks : i \in Range(ra.completed) /\ ra.results[i] = OutcomeOf(i)
    /\ ra.kind = "runAllSettled" => ra.outcome # "rejected"

\* the same for the calls whose onComplete, if there is one, returns
C27_WithoutThrowingCallback ==
    ra.onComplete # "throws" => C27_ResultsInTaskOrder

\* runAllSettled has returned; the tasks completed out of index order and one
\* of them rejected
C27_Witness ==
    /\ ra.kind = "runAllSettled" /\ ra.outcome = "returned"
    /\ ra.onComplete # "throws"
    /\ ra.tasks >= 3
    /\ \E i, j \in 1..Len(ra.completed) :
         i < j /\ ra.completed[i] > ra.completed[j]
    /\ \E i \in 1..ra.tasks : status[i] = "rejected"
    /\ \E i \in 1..ra.tasks : status[i] = "fulfilled"

\* ------------------------------ the two lists of the run

\* the ids deduplication marked for removal, by its comparisons
Dropped ==
    { Comparisons[n].removed :
        n \in { m \in 1..Len(Comparisons) : Comparisons[m].removed # << >> } }

NotDropped(e) == e.id \notin Dropped

\* C28: state.extractions and state.processingResults hold the same
\* extractions in the same order after every append and after deduplication;
\* deduplication removes from both lists the extractions it dropped and no
\* others.
C28_ListsAgree ==
    /\ pw.extractions = pw.processingResults
    /\ DedupStarted =>
         /\ pw.extractions = SelectSeq(BeforeDedup, NotDropped)
         /\ pw.processingResults = SelectSeq(BeforeDedup, NotDropped)

\* a run appended three extractions, deduplication dropped one of them, and
\* two are left
C28_Witness ==
    /\ DedupStarted
    /\ Len(BeforeDedup) = 3
    /\ Cardinality(Dropped) = 1
    /\ Len(pw.extractions) = 2
    /\ Len(pw.processingResults) = 2

\* C29: while a run is in progress, every window an iteration of the loop
\* reads is the window at that index of the list state.currentWindows held
\* when the run started.
C29_WindowsAsAtStart ==
    isProcessing(pw) =>
        \A k \in 1..Len(ui.reads) :
            ui.reads[k].win = windowAt(ui.atStart, ui.reads[k].i)

\* the run has read a second window
C29_Witness ==
    /\ isProcessing(pw)
    /\ Len(ui.reads) = 2
    /\ ui.reads[2].win # Undefined

\* the deduplication step: the run leaves its last await and ends
DedupStep == isProcessing(pw) /\ pw'.pc = "done"

\* C30: while a run is in progress, only the deduplication step takes
\* extractions off state.extractions.
C30_OnlyDedupShrinks ==
    [][ (isProcessing(pw) /\ Len(pw'.extractions) < Len(pw.extractions))
            => DedupStep ]_vars

\* an extraction is on the list while validations of the run are pending
C30_Witness ==
    /\ pw.pc = "awaitValidations"
    /\ Len(pw.extractions) > 0
    /\ \E k \in 1..Len(pw.pendingValidations) :
         pw.pendingValidations[k].phase = "lookup"

\* the merges of the run, as the log has them
Merges == { k \in 1..Len(pw.log) : pw.log[k].ev = "merged" }

\* C31: every merge combines an incomplete extraction cut at the end of
\* window i with an incomplete extraction cut at the start of window i+1;
\* neither is an error record.
C31_MergesAdjacentCuts ==
    \A k \in Merges :
        LET m == pw.log[k]
        IN  /\ ~m.end.error /\ ~m.start.error
            /\ m.end.complete = FALSE /\ m.end.position = "end"
            /\ m.start.complete = FALSE /\ m.start.position = "start"
            /\ m.start.windowIndex = m.w
            /\ m.end.windowIndex = m.w - 1

\* a merge in the third window, after a window that held nothing back
C31_Witness ==
    \E k \in Merges : pw.log[k].w = 3

\* the matching pending entry a complete citation discards: the last one
LastMatch(e) == CHOOSE k \in MatchesOf(e) : \A j \in MatchesOf(e) : j <= k

\* the pending entry with this id is routed, as it was held, by the flush
\* that ends window w
FlushedIncomplete(entry, p, w) ==
    \E q \in Events("route") :
        /\ q > p /\ pw.log[q].w = w
        /\ pw.log[q].citation = entry

\* a later citation of the batch takes the entry: a start extraction
\* merges with it, or a complete citation supersedes it
TakenLater(entry, p, w) ==
    \/ \E q \in Events("merged") :
         q > p /\ pw.log[q].w = w /\ pw.log[q].id = entry.id
    \/ \E q \in Events("final") :
         /\ q > p /\ pw.log[q].w = w
         /\ entry.id \in Ids(pw.log[q].pendingBefore) \ Ids(pw.log[q].pendingAfter)

\* the batch of the window has been handled and its flush made
WindowHandled(w) == pw.i + 1 > w \/ pw.pc \in {"awaitValidations", "done"}

\* C32 as stated: a complete citation discards at most its last matching
\* pending entry, and every other matching entry is routed to validation as
\* incomplete at the end of that window.
C32_OthersRoutedIncomplete ==
    \A p \in CompleteFinals :
        LET e == pw.log[p]
        IN  /\ MatchesOf(e) = {} => e.pendingAfter = e.pendingBefore
            /\ MatchesOf(e) # {} =>
                 /\ e.pendingAfter = RemoveAt(e.pendingBefore, LastMatch(e))
                 /\ WindowHandled(e.w) =>
                      \A k \in MatchesOf(e) \ {LastMatch(e)} :
                          FlushedIncomplete(e.pendingBefore[k], p, e.w)

\* C32: a complete citation discards at most its last matching pending
\* entry; every other matching entry stays pending when that citation has
\* been handled, and at the end of the window it is routed to validation as
\* incomplete unless a later citation of the batch merged with it or
\* superseded it.
C32_OthersStayPending ==
    \A p \in CompleteFinals :
        LET e == pw.log[p]
        IN  /\ MatchesOf(e) = {} => e.pendingAfter = e.pendingBefore
            /\ MatchesOf(e) # {} =>
                 /\ e.pendingAfter = RemoveAt(e.pendingBefore, LastMatch(e))
                 /\ WindowHandled(e.w) =>
                      \A k \in MatchesOf(e) \ {LastMatch(e)} :
                          LET entry == e.pendingBefore[k]
                          IN  /\ FlushedIncomplete(entry, p, e.w)
                                    \/ TakenLater(entry, p, e.w)
                              /\ ~(FlushedIncomplete(entry, p, e.w)
                                    /\ TakenLater(entry, p, e.w))

\* a complete citation matched two pending entries and discarded the later
\* one; the earlier one was flushed as incomplete
C32_Witness ==
    \E p \in CompleteFinals :
        LET e == pw.log[p]
        IN  /\ Cardinality(MatchesOf(e)) = 2
            /\ WindowHandled(e.w)
            /\ \A k \in MatchesOf(e) \ {LastMatch(e)} :
                  FlushedIncomplete(e.pendingBefore[k], p, e.w)

\* a request of the step was answered with a record
Answered(y) ==
    \E i \in 1..Len(y.results) :
        y.results[i].found /\ (y.step = "doi" => ~y.thrown[i])

\* a request of the step failed
Failing(y) == \E i \in 1..Len(y.thrown) : y.thrown[i]

\* where validateCitation goes from a step that gave no record
Searchable == vc.citation.query_bibliographic # "" \/ vc.citation.raw_text # << >>
StepAfter(step) ==
    IF step = "doi" /\ vc.citation.pmid # "" THEN "pmid"
    ELSE IF step # "search" /\ Searchable THEN "search"
    ELSE "done"

\* C33: validateCitation does not throw; a step gives a record exactly when
\* one of its requests was answered with one, a failed request counting as
\* one that found nothing; from a step that gave no record the call goes on
\* to the next step; and it returns with validationStatus valid, suspicious,
\* mismatch or invalid.
C33_FailuresAreNotFound ==
    /\ vc.pc # "threw"
    /\ vc.pc = "done" => vc.citation.validationStatus \in Verdicts
    /\ \A k \in 1..Len(vc.yielded) :
         LET y == vc.yielded[k]
         IN  /\ y.found <=> Answered(y)
             /\ ~y.found =>
                  IF k < Len(vc.yielded)
                  THEN vc.yielded[k + 1].step = StepAfter(y.step)
                  ELSE vc.pc = StepAfter(y.step)

\* the first DOI lookup, the PMID lookup and the search failed in turn, the
\* second DOI lookup found nothing
C33_Witness ==
    /\ vc.pc = "done"
    /\ Len(vc.yielded) = 3
    /\ vc.yielded[1].thrown = <<TRUE, FALSE>>
    /\ Failing(vc.yielded[2]) /\ Failing(vc.yielded[3])
    /\ vc.citation.validationStatus = "invalid"

\* one DOI lookup failed, the other one's record was judged
C33_WitnessOtherAuthority ==
    /\ vc.pc = "done"
    /\ Len(vc.yielded) = 1
    /\ vc.yielded[1].thrown = <<TRUE, FALSE>>
    /\ vc.yielded[1].found
    /\ vc.citation.validationStatus = "valid"

\* the DOI and PMID steps, where made, gave no record
NoRecordByIdentifier ==
    \A k \in 1..Len(vc.yielded) :
        vc.yielded[k].step \in {"doi", "pmid"} => ~vc.yielded[k].found

\* C34: a call of validateCitation whose identifier steps gave no record
\* has made a bibliographic search before it returns, whatever fields the
\* citation has.
C34_SearchWheneverNoRecord ==
    (vc.pc = "done" /\ NoRecordByIdentifier) =>
        \E i \in 1..Len(vc.calls) : vc.calls[i] = "crossref.searchBibliographic"

\* a citation with a query string or raw text, no identifier: searched
C34_Witness ==
    /\ vc.pc = "done"
    /\ vc.citation.doi = "" /\ vc.citation.pmid = ""
    /\ vc.calls = <<"crossref.searchBibliographic">>

\* the start offsets of the windows pushed so far strictly increase
StartsIncrease ==
    \A k \in 1..(Len(wn.windows) - 1) : wn.windows[k].start < wn.windows[k + 1].start

\* in the loop the window size is positive (2000 for an argument of 0 or
\* less), the overlap is within [0, windowSize-1] and the step is at least 1
LoopSetUp ==
    wn.pc = "loop" =>
        /\ wn.size = (IF wn.windowSize <= 0 THEN 2000 ELSE wn.windowSize)
        /\ 0 <= wn.over /\ wn.over <= wn.size - 1
        /\ wn.step = wn.size - wn.over /\ wn.step >= 1

\* a pass through the loop body moves start forward
StartAdvances ==
    (wn.pc = "loop" /\ wn'.pc = "loop") =>
        /\ wn'.start > wn.start
        /\ wn.text.length - wn'.start < wn.text.length - wn.start

\* the call has returned what createWindows gives for its arguments
ReturnedWindows ==
    wn.pc = "returned" =>
        /\ wn.windows = createWindows(wn.text, wn.windowSize, wn.overlap)
        /\ (wn.text.length = 0 \/ wn.text.blank) => wn.windows = << >>

\* C35: createWindows returns for every text, windowSize and overlap: in the
\* loop the step is at least 1 (windowSize <= 0 taken as 2000, overlap
\* clamped into [0, windowSize-1]), every pass moves start forward, the
\* start offsets of the windows strictly increase, and an empty or
\* whitespace-only text gives the empty list.
C35_CreateWindowsTerminates ==
    /\ [](LoopSetUp /\ StartsIncrease /\ ReturnedWindows)
    /\ [][StartAdvances]_vars
    /\ <>(wn.pc = "returned")

\* a call with an overlap of more than the window size has returned several
\* windows
C35_Witness ==
    /\ wn.pc = "returned"
    /\ wn.overlap > wn.windowSize /\ wn.windowSize > 0
    /\ Len(wn.windows) >= 3

\* a call with a window size below 1 has returned
C35_WitnessDefaultSize ==
    /\ wn.pc = "returned"
    /\ wn.windowSize <= 0 /\ ~wn.text.blank
    /\ Len(wn.windows) = 1

\* C36: tasks start in the order of their schedule calls (the callers pass
\* task 1, then task 2, ...): no task has started while a task scheduled
\* before it waits in the queue.
C36_StartsInScheduleOrder ==
    /\ \A i, j \in 1..Len(startLog) : i < j => startLog[i] < startLog[j]
    /\ \A t, u \in Tasks :
         (u < t /\ status[u] = "queued") => status[t] \in {"unscheduled", "queued"}

\* a task waits in the queue with its timer armed, the budget has freed up
\* and the timer is not due yet
C36_Witness ==
    /\ rl.queue # << >>
    /\ rl.timers # << >> /\ \A k \in 1..Len(rl.timers) : rl.timers[k] > 0
    /\ canProceed(cleanTimestamps(rl))

\* C37: processAllWindows returns in the end, given that every extraction
\* call and every lookup settles, due timers fire and time advances.
C37_RunReturns == <>(pw.pc = "done")

\* the run waits for its validations with more of them queued in the
\* validation limiter than a minute admits
C37_Witness ==
    /\ pw.pc = "awaitValidations"
    /\ Len(pw.validationLimiter.queue) > pw.validationLimiter.requestsPerMinute

\* the run waits for a validation that is queued in the validation limiter
\* with no timer armed and no validation task running
C37_Stranded ==
    /\ pw.pc = "awaitValidations"
    /\ pw.validationLimiter.queue # << >>
    /\ pw.validationLimiter.timers = << >>
    /\ pw.validationLimiter.activeRequests = 0

\* the extraction list as deduplicateExtractions received it (line 299)
DedupInput == pw.log[CHOOSE p \in Events("dedup") : TRUE].before

ErrorEntries(exts) == { j \in 1..Len(exts) : exts[j].error }

\* C38: when a run that was never cancelled has returned, every raw
\* extraction a successful window returned is accounted for in the list
\* handed to deduplication: it had one disposition; a final one is listed
\* under its own id; a held one is either listed under its own id or was
\* discarded by a complete citation of the next window, never both; a merged
\* one went into a pending end entry that is listed, complete; and every
\* failed window has exactly one error record, with no other error records.
C38_NoRawExtractionLost ==
    (pw.pc = "done" /\ ~pw.shouldCancel) =>
        /\ Cardinality(Events("merged") \cup Events("held") \cup Events("final"))
             = pw.rawCount
        /\ \A p \in Events("final") : pw.log[p].citation.id \in Ids(DedupInput)
        /\ \A p \in Events("held") :
             (pw.log[p].citation.id \in Ids(DedupInput))
               # (pw.log[p].citation.id \in SupersededIds)
        /\ \A p \in Events("merged") :
             \E j \in 1..Len(DedupInput) :
                /\ DedupInput[j].id = pw.log[p].id
                /\ DedupInput[j].complete = TRUE
        /\ \A p \in Events("failed") :
             Cardinality(ErrorRecords(DedupInput, pw.log[p].w)) = 1
        /\ Cardinality(ErrorEntries(DedupInput)) = Cardinality(Events("failed"))
        /\ \A j, k \in 1..Len(DedupInput) :
             DedupInput[j].id = DedupInput[k].id => j = k

\* a run that was never cancelled returned after a window failed, one raw
\* extraction was merged, one pending entry was superseded and one was
\* listed on its own
C38_Witness ==
    /\ pw.pc = "done" /\ ~pw.shouldCancel
    /\ Events("failed") # {}
    /\ Events("merged") # {}
    /\ \E p \in Events("held") : pw.log[p].citation.id \in Ids(DedupInput)

\* a never-cancelled run returned and a pending end entry had been discarded
\* by a complete citation
C38_WitnessSuperseded ==
    /\ pw.pc = "done" /\ ~pw.shouldCancel
    /\ \E p \in Events("held") : pw.log[p].citation.id \in SupersededIds

\* the positions of a list whose entries are not error records
CitationEntries(exts) == { j \in 1..Len(exts) : ~exts[j].error }

\* C39: after deduplicateExtractions has returned, no two non-error
\* extractions left in the extraction list are strict duplicates of each
\* other (in either order of the arguments), and the loops of a second call
\* on the list mark nothing: it returns 0.
C39_SecondPassRemovesNothing ==
    pw.pc = "done" =>
        /\ \A j, k \in CitationEntries(pw.extractions) :
             j # k => ~extractionsAreDuplicates(pw.extractions[j], pw.extractions[k])
        /\ Cardinality(duplicateIds(pw.extractions)) = 0

\* the call was given a full list, removed from it, and left two citations
C39_Witness ==
    /\ pw.pc = "done"
    /\ Len(DedupInput) = MaxList
    /\ Cardinality(CitationEntries(pw.extractions)) >= 2
    /\ Len(pw.extractions) < Len(DedupInput)

\* the positions of the list handed to deduplicateExtractions whose entries
\* the call removed
RemovedByDedup ==
    { j \in 1..Len(DedupInput) : DedupInput[j].id \notin Ids(pw.extractions) }

\* C40 as stated: every extraction deduplicateExtractions removed has a
\* strict duplicate among the extractions that remain in the list.
C40_RemovedHasRemainingDuplicate ==
    pw.pc = "done" =>
        \A j \in RemovedByDedup :
            \E k \in CitationEntries(pw.extractions) :
                \/ extractionsAreDuplicates(DedupInput[j], pw.extractions[k])
                \/ extractionsAreDuplicates(pw.extractions[k], DedupInput[j])

====
